---- MODULE Spec2Model ----
(***************************************************************************)
(* Model of the meeting-mind audio pipeline (src/src/main.js, VAD build):  *)
(* per-source voice activity detection, utterance files, asynchronous      *)
(* transcription calls and the transcript reconciler.                      *)
(***************************************************************************)
EXTENDS Integers, Sequences, FiniteSets, TLC

VARIABLES
  clock,            \* reading of Date.now() / new Date(), in ms
  cfg,              \* the configuration constants of main.js:36-52
  mainWindow,       \* TRUE while the BrowserWindow reference is non-null
  isRecording,      \* main.js:468
  recorders,        \* micRecorder / speakerRecorder non-null, per source
  streams,          \* number of capture streams with handlers, per source
  startPending,     \* startRecording calls suspended at their await
  vadState,         \* main.js:473-496
  files,            \* utterance files on disk, by path
  uploads,          \* the per-source staging file <source>-upload.wav
  inflight,         \* transcription calls awaiting Promise.race
  transcriptBuffer, \* main.js:498
  finals,           \* history: one record per finalizeUtterance that ran
  recons,           \* history: one record per reconciled result
  sessions,         \* history: number of startRecording calls
  frames,           \* history: number of data events
  quiet,            \* history: the current run of sub-threshold frames, per source
  ignoredStops,     \* history: stopRecording calls that returned at the guard
  failures,         \* history: transcription calls that ended in the catch block
  opened,           \* history: frameCount after the frame that opened the
                    \*   source's latest utterance
  script            \* the inputs of a scripted scenario or of a function call

vars == <<clock, cfg, mainWindow, isRecording, recorders, streams,
          startPending, vadState, files, uploads, inflight,
          transcriptBuffer, finals, recons, sessions, frames, quiet,
          ignoredStops, failures, opened, opened, script>>

----------------------------------------------------------------------------
(* Program constants                                                        *)

VAD_AMPLITUDE_THRESHOLD == 80
VAD_SILENCE_THRESHOLD == 50
VAD_SILENCE_DURATION_MS == 1500
VAD_MIN_UTTERANCE_MS == 500
VAD_MAX_UTTERANCE_MS == 15000
VAD_BUFFER_LIMIT == 1000
TRANSCRIPT_CONTINUATION_WINDOW == 10000
MAX_TRANSCRIPT_ENTRIES == 100
WAV_HEADER_BYTES == 44
TRANSCRIPTION_TIMEOUT_MS == 30000

\* TRANSCRIPT_SIMILARITY_THRESHOLD = 0.5 as the fraction SimNum / SimDen
TRANSCRIPT_SIMILARITY_THRESHOLD == <<1, 2>>

DefaultCfg ==
  [ speechThreshold  |-> VAD_AMPLITUDE_THRESHOLD,
    silenceThreshold |-> VAD_SILENCE_THRESHOLD,
    silenceDuration  |-> VAD_SILENCE_DURATION_MS,
    minUtterance     |-> VAD_MIN_UTTERANCE_MS,
    maxUtterance     |-> VAD_MAX_UTTERANCE_MS,
    bufferLimit      |-> VAD_BUFFER_LIMIT,
    similarity       |-> TRANSCRIPT_SIMILARITY_THRESHOLD,
    window           |-> TRANSCRIPT_CONTINUATION_WINDOW,
    maxEntries       |-> MAX_TRANSCRIPT_ENTRIES,
    ioFaults         |-> FALSE ]

----------------------------------------------------------------------------
(* Bounds of the model                                                      *)

MaxFrames == 2       \* data events in a run
MaxSessions == 1     \* startRecording calls in a run
FrameBytes == 4      \* bytes of one audio chunk

StartDelay == 500                   \* time the device detection of startRecording takes
Epoch == 1000                       \* clock reading of the initial state
Deltas == {500, 2000, 15000}        \* time between a data event and the event before it
Amps == {20, 50, 80, 90}            \* loudness of a frame: the two thresholds and either side

----------------------------------------------------------------------------
(* Values                                                                   *)

Sources == {"mic", "speaker"}
NULL == -1                          \* null in a timestamp field
NoPath == [source |-> "none", count |-> 0, at |-> 0]   \* null in audioPath

\* JavaScript truthiness of a nullable number (main.js:194)
Truthy(t) == t # NULL /\ t # 0

\* source mapping (mic -> "You", speaker -> "Other"), main.js:214
TranscriptSource(source) == IF source = "mic" THEN "You" ELSE "Other"

\* channel count of a source, main.js:125
Channels(source) == IF source = "mic" THEN 1 ELSE 2

\* path.join(DEBUG_RECORDINGS_DIR, `vad-${source}-utterance-${count}-${now}.wav`)
UtterancePath(source, count, now) == [source |-> source, count |-> count, at |-> now]

\* An audio chunk is identified by its arrival number on its source in the
\* session; its loudness (calculateAmplitude of its samples) is an input of
\* the frame handler.
Chunk(source) == vadState[source].frameCount + 1

InitialVad ==
  [ isActive       |-> FALSE,
    isSilence      |-> TRUE,
    utteranceStart |-> NULL,
    silenceStart   |-> NULL,
    audioBuffers   |-> <<>>,
    frameCount     |-> 0,
    lastAmplitude  |-> 0,
    audioPath      |-> NoPath,
    utteranceCount |-> 0 ]

----------------------------------------------------------------------------
(* The file system: a function from the paths that exist to file contents.  *)
(* A file is its header fields and the sequence of chunks appended to it.   *)

Exists(fs, p) == p \in DOMAIN fs

WriteFile(fs, p, content) ==
  [q \in (DOMAIN fs) \cup {p} |-> IF q = p THEN content ELSE fs[q]]

\* variant: the file stays
Unlink_Keep(fs, p) == fs

Unlink(fs, p) == [q \in (DOMAIN fs) \ {p} |-> fs[q]]

\* stats.size
FileSize(f) == (IF f.header THEN WAV_HEADER_BYTES ELSE 0) + FrameBytes * Len(f.data)

\* initializeWavFile: a 44-byte header with placeholder sizes; an I/O error
\* is caught and logged
InitializeWavFile(fs, p, channels, ok) ==
  IF ok
  THEN WriteFile(fs, p, [header |-> TRUE, channels |-> channels,
                         riffSize |-> 0, dataSize |-> 0, data |-> <<>>])
  ELSE fs

\* variant: the chunk is written twice
AppendToWavFile_Twice(fs, p, chunk, ok) ==
  IF ~ok THEN fs
  ELSE IF Exists(fs, p)
       THEN WriteFile(fs, p, [fs[p] EXCEPT !.data = @ \o <<chunk, chunk>>])
       ELSE WriteFile(fs, p, [header |-> FALSE, channels |-> 0,
                              riffSize |-> 0, dataSize |-> 0, data |-> <<chunk, chunk>>])

\* appendToWavFile: fs.appendFileSync creates the file when it is missing
AppendToWavFile(fs, p, chunk, ok) ==
  IF ~ok THEN fs
  ELSE IF Exists(fs, p)
       THEN WriteFile(fs, p, [fs[p] EXCEPT !.data = Append(@, chunk)])
       ELSE WriteFile(fs, p, [header |-> FALSE, channels |-> 0,
                              riffSize |-> 0, dataSize |-> 0, data |-> <<chunk>>])

\* finalizeWavFile: patch the two size fields from the file size.  statSync
\* throws on a missing file and writeUInt32LE on a negative size, before
\* anything is written; any error is caught and logged.  (Sizes stay far
\* below 2^32 here, the upper end of the writeUInt32LE range.)
FinalizeWavFile(fs, p, ok) ==
  IF ok /\ Exists(fs, p) /\ FileSize(fs[p]) - WAV_HEADER_BYTES >= 0
  THEN WriteFile(fs, p, [fs[p] EXCEPT
                           !.riffSize = FileSize(fs[p]) - 8,
                           !.dataSize = FileSize(fs[p]) - WAV_HEADER_BYTES])
  ELSE fs

----------------------------------------------------------------------------
(* The world a handler runs in: the state it reads and writes, threaded     *)
(* through the operators below.  now is the handler's latest clock reading. *)

World ==
  [ vad |-> vadState, files |-> files, uploads |-> uploads,
    inflight |-> inflight, finals |-> finals, now |-> clock ]

\* transcribeAudioChunk up to its await (main.js:998-1060): check the file,
\* stage it at the per-source upload path and start the API call.  The
\* early returns run the finally block, which deletes the file.
TranscribeAudioChunkStart(w, filePath, source) ==
  IF ~Exists(w.files, filePath) THEN w
  ELSE IF FileSize(w.files[filePath]) <= WAV_HEADER_BYTES
       THEN [w EXCEPT !.files = Unlink(@, filePath)]
       ELSE [w EXCEPT
               !.uploads = [@ EXCEPT ![source] =
                              [from |-> filePath, content |-> w.files[filePath]]],
               !.inflight = @ \cup {[path |-> filePath, source |-> source,
                                     startedAt |-> w.now, sent |-> NoPath]}]

\* variant: the trailing silence is left out of the duration
UtteranceDuration_UntilSilence(state, now) ==
  (IF state.silenceStart # NULL THEN state.silenceStart ELSE now) - state.utteranceStart

\* const utteranceDuration = now - state.utteranceStart (main.js:202)
UtteranceDuration(state, now) == now - state.utteranceStart

\* variant: no minimum duration
LongEnough_NoMinimum(duration) == duration >= 0

\* utteranceDuration >= VAD_MIN_UTTERANCE_MS (main.js:205)
LongEnough(duration) == duration >= cfg.minUtterance

\* finalizeUtterance (main.js:190-242).  A handler runs within one reading of
\* the clock: Date.now() here returns what the caller read.
FinalizeUtterance(w, source, reason, okFinal) ==
  LET state == w.vad[source]
      now == w.now
  IN
  IF ~state.isActive \/ ~Truthy(state.utteranceStart)
  THEN [w EXCEPT !.vad[source].isActive = FALSE,
                 !.vad[source].isSilence = TRUE,
                 !.vad[source].audioBuffers = <<>>]
  ELSE
    LET utteranceDuration == UtteranceDuration(state, now)
        longEnough == LongEnough(utteranceDuration)
        fs1 == IF longEnough THEN FinalizeWavFile(w.files, state.audioPath, okFinal)
               ELSE w.files
        outcome == IF longEnough
                   THEN IF Exists(fs1, state.audioPath) THEN "dispatched" ELSE "missing"
                   ELSE "discarded"
        rec == [ source |-> source, reason |-> reason, path |-> state.audioPath,
                 start |-> state.utteranceStart, at |-> now,
                 duration |-> utteranceDuration,
                 silenceStart |-> state.silenceStart,
                 outcome |-> outcome,
                 patched |-> /\ Exists(fs1, state.audioPath)
                             /\ fs1[state.audioPath].header
                             /\ fs1[state.audioPath].riffSize
                                  = FileSize(fs1[state.audioPath]) - 8,
                 content |-> IF Exists(fs1, state.audioPath)
                             THEN fs1[state.audioPath].data ELSE <<>> ]
        w1 == [w EXCEPT !.files = fs1, !.finals = Append(@, rec)]
        w2 == IF outcome = "dispatched"
              THEN TranscribeAudioChunkStart(w1, state.audioPath, TranscriptSource(source))
              ELSE IF outcome = "discarded" /\ state.audioPath # NoPath
                                            /\ Exists(w1.files, state.audioPath)
                   THEN [w1 EXCEPT !.files = Unlink(@, state.audioPath)]
                   ELSE w1
    IN [w2 EXCEPT !.vad[source].isActive = FALSE,
                  !.vad[source].isSilence = TRUE,
                  !.vad[source].utteranceStart = NULL,
                  !.vad[source].silenceStart = NULL,
                  !.vad[source].audioBuffers = <<>>,
                  !.vad[source].audioPath = NoPath]

\* amplitude > VAD_AMPLITUDE_THRESHOLD (main.js:108, 137)
IsSpeech(amplitude) == amplitude > cfg.speechThreshold

\* amplitude < VAD_SILENCE_THRESHOLD (main.js:157)
IsQuiet(amplitude) == amplitude < cfg.silenceThreshold

\* variant: the maximum duration is never enforced
OverMaxDuration_Never(duration) == FALSE

\* variant: the split comes one silence period late
OverMaxDuration_Late(duration) == duration > cfg.maxUtterance + cfg.silenceDuration

\* utteranceDuration > VAD_MAX_UTTERANCE_MS (main.js:132)
OverMaxDuration(duration) == duration > cfg.maxUtterance

\* variant: any second quiet frame ends the utterance
SilenceLongEnough_Any(duration) == duration >= 0

\* variant: the silence is measured against the minimum utterance duration
SilenceLongEnough_MinUtterance(duration) == duration >= cfg.minUtterance

\* silenceDuration > VAD_SILENCE_DURATION_MS (main.js:166)
SilenceLongEnough(duration) == duration > cfg.silenceDuration

\* variant: the valve never opens
BufferOverLimit_Never(n) == FALSE

\* variant: the valve opens one frame earlier
BufferOverLimit_AtLimit(n) == n >= cfg.bufferLimit

\* state.audioBuffers.length > VAD_BUFFER_LIMIT (main.js:91)
BufferOverLimit(n) == n > cfg.bufferLimit

\* variant: the flag is cleared and the silence start is kept
ResumeSpeech_FlagOnly(state) ==
  IF state.isSilence THEN [state EXCEPT !.isSilence = FALSE] ELSE state

\* variant: the silence timer survives the resumed speech
ResumeSpeech_KeepTimer(state) == state

\* speech resumed after a quiet frame (main.js:174-179)
ResumeSpeech(state) ==
  IF state.isSilence
  THEN [state EXCEPT !.isSilence = FALSE, !.silenceStart = NULL]
  ELSE state

\* variant: the utterance counter is left as it was
OpenUtterance_SameCounter(w, source, now, okWrite) ==
  LET count == w.vad[source].utteranceCount
      p == UtterancePath(source, count, now)
  IN [w EXCEPT !.vad[source].isActive = TRUE,
               !.vad[source].isSilence = FALSE,
               !.vad[source].utteranceStart = now,
               !.vad[source].utteranceCount = count,
               !.vad[source].audioPath = p,
               !.files = InitializeWavFile(@, p, Channels(source), okWrite)]

\* variant: one utterance counter for the two sources
OpenUtterance_SharedCounter(w, source, now, okWrite) ==
  LET count == w.vad[source].utteranceCount + 1
      p == UtterancePath(source, count, now)
  IN [w EXCEPT !.vad = [s \in Sources |->
                          IF s = source
                          THEN [@[s] EXCEPT !.isActive = TRUE,
                                            !.isSilence = FALSE,
                                            !.utteranceStart = now,
                                            !.utteranceCount = count,
                                            !.audioPath = p]
                          ELSE [@[s] EXCEPT !.utteranceCount = count]],
               !.files = InitializeWavFile(@, p, Channels(source), okWrite)]

\* start of an utterance (main.js:110-125 and 138-146): the new file holds
\* the header only
OpenUtterance(w, source, now, okWrite) ==
  LET count == w.vad[source].utteranceCount + 1
      p == UtterancePath(source, count, now)
  IN [w EXCEPT !.vad[source].isActive = TRUE,
               !.vad[source].isSilence = FALSE,
               !.vad[source].utteranceStart = now,
               !.vad[source].utteranceCount = count,
               !.vad[source].audioPath = p,
               !.files = InitializeWavFile(@, p, Channels(source), okWrite)]

\* processAudioForVAD after the level logging (main.js:90-181)
ProcessFrame(w0, source, chunk, amplitude, okWrite, okFinal) ==
  LET now == w0.now
      \* safety check on the rolling buffer
      wa == IF BufferOverLimit(Len(w0.vad[source].audioBuffers))
            THEN IF w0.vad[source].isActive
                 THEN FinalizeUtterance(w0, source, "buffer-limit", okFinal)
                 ELSE [w0 EXCEPT !.vad[source].audioBuffers = <<>>]
            ELSE w0
      \* always store the frame
      wb == [wa EXCEPT !.vad[source].audioBuffers = Append(@, chunk),
                       !.vad[source].frameCount = @ + 1]
      state == wb.vad[source]
  IN
  IF ~state.isActive
  THEN IF IsSpeech(amplitude)
       THEN [OpenUtterance(wb, source, now, okWrite)
               EXCEPT !.vad[source].silenceStart = NULL]
       ELSE wb
  ELSE
    LET utteranceDuration == UtteranceDuration(state, now) IN
    IF OverMaxDuration(utteranceDuration)
    THEN LET wc == FinalizeUtterance(wb, source, "max-duration", okFinal)
         IN IF IsSpeech(amplitude)
            THEN OpenUtterance(wc, source, now, okWrite)
            ELSE wc
    ELSE
      LET wd == IF state.audioPath # NoPath
                THEN [wb EXCEPT !.files = AppendToWavFile(@, state.audioPath, chunk, okWrite)]
                ELSE wb
      IN
      IF IsQuiet(amplitude)
      THEN IF ~state.isSilence
           THEN [wd EXCEPT !.vad[source].isSilence = TRUE,
                           !.vad[source].silenceStart = now]
           ELSE IF SilenceLongEnough(now - state.silenceStart)
                THEN FinalizeUtterance(wd, source, "silence", okFinal)
                ELSE wd
      ELSE [wd EXCEPT !.vad[source] = ResumeSpeech(state)]

\* processAudioForVAD (main.js:61-182).  Every fifth frame the level is sent
\* to the window; with the window gone that send throws after lastAmplitude
\* was stored and the rest of the handler does not run.
ProcessAudioForVAD(w0, source, chunk, amplitude, okWrite, okFinal) ==
  LET w == [w0 EXCEPT !.vad[source].lastAmplitude = amplitude] IN
  IF ~mainWindow /\ w0.vad[source].frameCount % 5 = 0
  THEN w
  ELSE ProcessFrame(w, source, chunk, amplitude, okWrite, okFinal)

----------------------------------------------------------------------------
(* Frame sampler.  A Buffer is its bytes and its byteOffset into the         *)
(* ArrayBuffer behind it; the amplitude, a square root, is kept as the       *)
(* fraction <<sum, count>> it is the root of.                                *)

\* the 16-bit signed little-endian sample of two bytes
Int16(lo, hi) ==
  LET u == lo + 256 * hi IN IF u >= 32768 THEN u - 65536 ELSE u

\* extractSamplesFromBuffer (main.js:250-253): new Int16Array(buffer.buffer,
\* buffer.byteOffset, buffer.length / 2) throws a RangeError when byteOffset
\* is not a multiple of 2, and truncates the length to an integer
extractSamplesFromBuffer(buffer) ==
  IF buffer.byteOffset % 2 # 0
  THEN [error |-> "RangeError", samples |-> <<>>]
  ELSE [error |-> "none",
        samples |-> [i \in 1..(Len(buffer.bytes) \div 2) |->
                       Int16(buffer.bytes[2 * i - 1], buffer.bytes[2 * i])]]

\* the sum of the loop of calculateAmplitude (main.js:267-271) over its
\* reads lo..hi, the k-th read being of the sample at 0-based index k * step
RECURSIVE SumOfSquares(_, _, _, _)
SumOfSquares(samples, step, lo, hi) ==
  IF lo > hi THEN 0
  ELSE IF lo = hi THEN samples[lo * step + 1] * samples[lo * step + 1]
  ELSE LET mid == (lo + hi) \div 2
       IN SumOfSquares(samples, step, lo, mid) + SumOfSquares(samples, step, mid + 1, hi)

\* variant: the samples are summed without being squared
RECURSIVE SumOfSquares_Plain(_, _, _, _)
SumOfSquares_Plain(samples, step, lo, hi) ==
  IF lo > hi THEN 0
  ELSE IF lo = hi THEN samples[lo * step + 1]
  ELSE LET mid == (lo + hi) \div 2
       IN SumOfSquares_Plain(samples, step, lo, mid)
            + SumOfSquares_Plain(samples, step, mid + 1, hi)

\* variant: the amplitude is the root of the mean of the samples
calculateAmplitude_MeanOfSamples(samples) ==
  LET n == Len(samples)
      step == IF n \div 100 > 1 THEN n \div 100 ELSE 1
      count == (n + step - 1) \div step
  IN IF count = 0 THEN <<0, 1>>
     ELSE <<SumOfSquares_Plain(samples, step, 0, count - 1), count>>

\* calculateAmplitude (main.js:261-277): Math.sqrt(sum / count), 0 when no
\* sample was read
calculateAmplitude(samples) ==
  LET n == Len(samples)
      step == IF n \div 100 > 1 THEN n \div 100 ELSE 1
      count == (n + step - 1) \div step
  IN IF count = 0 THEN <<0, 1>>
     ELSE <<SumOfSquares(samples, step, 0, count - 1), count>>

----------------------------------------------------------------------------
(* Text: a string is a sequence of one-character strings.                   *)

\* the lower-case letter of each upper-case letter
LowerOf ==
  [ A |-> "a", B |-> "b", C |-> "c", D |-> "d", E |-> "e", F |-> "f", G |-> "g",
    H |-> "h", I |-> "i", J |-> "j", K |-> "k", L |-> "l", M |-> "m", N |-> "n",
    O |-> "o", P |-> "p", Q |-> "q", R |-> "r", S |-> "s", T |-> "t", U |-> "u",
    V |-> "v", W |-> "w", X |-> "x", Y |-> "y", Z |-> "z" ]

IsSpace(c) == c \in {" ", "\t", "\n"}

ToLowerChar(c) == IF c \in DOMAIN LowerOf THEN LowerOf[c] ELSE c

\* String.prototype.toLowerCase
ToLowerCase(t) == [i \in 1..Len(t) |-> ToLowerChar(t[i])]

RECURSIVE TrimStart(_)
TrimStart(t) == IF t # <<>> /\ IsSpace(t[1]) THEN TrimStart(Tail(t)) ELSE t

RECURSIVE TrimEnd(_)
TrimEnd(t) ==
  IF t # <<>> /\ IsSpace(t[Len(t)]) THEN TrimEnd(SubSeq(t, 1, Len(t) - 1)) ELSE t

\* String.prototype.trim
Trim(t) == TrimEnd(TrimStart(t))

\* String.prototype.split(/\s+/): the pieces between the runs of white space,
\* scanning from position i with the piece cur in progress
RECURSIVE SplitFrom(_, _, _)
SplitFrom(t, i, cur) ==
  IF i > Len(t) THEN <<cur>>
  ELSE IF IsSpace(t[i])
       THEN IF i > 1 /\ IsSpace(t[i - 1])
            THEN SplitFrom(t, i + 1, cur)
            ELSE <<cur>> \o SplitFrom(t, i + 1, <<>>)
       ELSE SplitFrom(t, i + 1, Append(cur, t[i]))

\* new Set(t.split(/\s+/))
WordSet(t) == LET words == SplitFrom(t, 1, <<>>) IN { words[i] : i \in 1..Len(words) }

\* String.prototype.includes
Includes(hay, needle) ==
  \E i \in 0..(Len(hay) - Len(needle)) : SubSeq(hay, i + 1, i + Len(needle)) = needle

Abs(n) == IF n < 0 THEN -n ELSE n

\* variant: the word count check is left out
calculateTextSimilarity_NoCountCheck(text1, text2) ==
  IF text1 = <<>> \/ text2 = <<>> THEN <<0, 1>>
  ELSE
    LET a == Trim(ToLowerCase(text1))
        b == Trim(ToLowerCase(text2))
        intersection == Cardinality(WordSet(a) \cap WordSet(b))
        union == Cardinality(WordSet(a) \cup WordSet(b))
    IN IF a = b THEN <<1, 1>>
       ELSE IF union = 0 THEN <<0, 1>>
       ELSE <<intersection, union>>

\* calculateTextSimilarity (main.js:520-550); the result is the fraction
\* <<numerator, denominator>>
calculateTextSimilarity(text1, text2) ==
  IF text1 = <<>> \/ text2 = <<>> THEN <<0, 1>>
  ELSE
    LET a == Trim(ToLowerCase(text1))
        b == Trim(ToLowerCase(text2))
        setA == WordSet(a)
        setB == WordSet(b)
        intersection == Cardinality(setA \cap setB)
        union == Cardinality(setA) + Cardinality(setB) - intersection
    IN IF a = b THEN <<1, 1>>
       ELSE IF Abs(Cardinality(setA) - Cardinality(setB)) > 3 THEN <<3, 10>>
       ELSE IF union = 0 THEN <<0, 1>>
       ELSE <<intersection, union>>

\* calculateTextSimilarity of the later copy of the main process
\* (main.js:2562-2588): containment short-circuits to 0.9 and there is no
\* word count check
calculateTextSimilarityWithContainment(text1, text2) ==
  IF text1 = <<>> \/ text2 = <<>> THEN <<0, 1>>
  ELSE
    LET a == Trim(ToLowerCase(text1))
        b == Trim(ToLowerCase(text2))
        setA == WordSet(a)
        setB == WordSet(b)
        intersection == Cardinality(setA \cap setB)
        union == Cardinality(setA) + Cardinality(setB) - intersection
    IN IF a = b THEN <<1, 1>>
       ELSE IF Includes(a, b) THEN <<9, 10>>
       ELSE IF Includes(b, a) THEN <<9, 10>>
       ELSE IF union = 0 THEN <<0, 1>>
       ELSE <<intersection, union>>

\* variant: a similarity equal to the threshold counts as a duplicate
ExceedsThreshold_AtLeast(sim, threshold) == sim[1] * threshold[2] >= threshold[1] * sim[2]

\* similarity > threshold, on fractions with positive denominators
ExceedsThreshold(sim, threshold) == sim[1] * threshold[2] > threshold[1] * sim[2]

\* variant: the latest entry of any source
findLatestTranscriptFromSource_AnySource(buf, source) == Len(buf)

\* findLatestTranscriptFromSource (main.js:555-562): index of the entry, 0 for null
findLatestTranscriptFromSource(buf, source) ==
  IF \E i \in 1..Len(buf) : buf[i].source = source
  THEN CHOOSE i \in 1..Len(buf) :
         buf[i].source = source /\ \A j \in (i+1)..Len(buf) : buf[j].source # source
  ELSE 0

WithinWindow(gap) == gap <= cfg.window

\* variant: a text is a duplicate when its similarity is under the threshold
processTranscript_IgnoreBelow(buf, newText, source, now) ==
  LET k == findLatestTranscriptFromSource(buf, source) IN
  IF k = 0 THEN "create"
  ELSE IF ~ExceedsThreshold(calculateTextSimilarity(buf[k].text, newText), cfg.similarity)
       THEN "ignore"
  ELSE IF WithinWindow(now - buf[k].lastUpdated) THEN "append"
  ELSE "create"

\* variant: the continuation window is tested before the duplicate check
processTranscript_WindowFirst(buf, newText, source, now) ==
  LET k == findLatestTranscriptFromSource(buf, source) IN
  IF k = 0 THEN "create"
  ELSE IF WithinWindow(now - buf[k].lastUpdated) THEN "append"
  ELSE IF ExceedsThreshold(calculateTextSimilarity(buf[k].text, newText), cfg.similarity)
       THEN "ignore"
  ELSE "create"

\* processTranscript (main.js:570-596)
processTranscript(buf, newText, source, now) ==
  LET k == findLatestTranscriptFromSource(buf, source) IN
  IF k = 0 THEN "create"
  ELSE IF ExceedsThreshold(calculateTextSimilarity(buf[k].text, newText), cfg.similarity)
       THEN "ignore"
  ELSE IF WithinWindow(now - buf[k].lastUpdated) THEN "append"
  ELSE "create"

\* Array.prototype.sort((a, b) => a.timestamp - b.timestamp): stable
RECURSIVE InsertByTimestamp(_, _)
InsertByTimestamp(sorted, e) ==
  IF sorted = <<>> THEN <<e>>
  ELSE IF sorted[Len(sorted)].timestamp <= e.timestamp THEN Append(sorted, e)
  ELSE Append(InsertByTimestamp(SubSeq(sorted, 1, Len(sorted) - 1), e), sorted[Len(sorted)])

\* variant: the comparator is reversed, latest first
RECURSIVE SortByTimestamp_Descending(_)
SortByTimestamp_Descending(buf) ==
  IF buf = <<>> THEN <<>>
  ELSE LET rest == SortByTimestamp_Descending(SubSeq(buf, 1, Len(buf) - 1))
           e == buf[Len(buf)]
           before == SelectSeq(rest, LAMBDA x : x.timestamp >= e.timestamp)
           after == SelectSeq(rest, LAMBDA x : x.timestamp < e.timestamp)
       IN before \o <<e>> \o after

RECURSIVE SortByTimestamp(_)
SortByTimestamp(buf) ==
  IF buf = <<>> THEN <<>>
  ELSE InsertByTimestamp(SortByTimestamp(SubSeq(buf, 1, Len(buf) - 1)), buf[Len(buf)])

\* variant: the oldest entry of the source is the one extended
AppendToLatest_Oldest(buf, text, source, now) ==
  LET k == CHOOSE i \in 1..Len(buf) :
             buf[i].source = source /\ \A j \in 1..(i - 1) : buf[j].source # source
  IN IF Len(text) > Len(buf[k].text) \/ ~Includes(buf[k].text, text)
     THEN [buf EXCEPT ![k].text = buf[k].text \o <<" ">> \o text,
                      ![k].lastUpdated = now]
     ELSE buf

\* variant: the text is joined whether or not the entry holds it already
AppendToLatest_NoGuard(buf, text, source, now) ==
  LET k == findLatestTranscriptFromSource(buf, source) IN
  [buf EXCEPT ![k].text = buf[k].text \o <<" ">> \o text, ![k].lastUpdated = now]

\* variant: the new text replaces the entry's text
AppendToLatest_Replace(buf, text, source, now) ==
  LET k == findLatestTranscriptFromSource(buf, source) IN
  [buf EXCEPT ![k].text = text, ![k].lastUpdated = now]

\* the mutation of the append branch (main.js:1100-1120)
AppendToLatest(buf, text, source, now) ==
  LET k == findLatestTranscriptFromSource(buf, source) IN
  IF Len(text) > Len(buf[k].text) \/ ~Includes(buf[k].text, text)
  THEN [buf EXCEPT ![k].text = buf[k].text \o <<" ">> \o text,
                   ![k].lastUpdated = now]
  ELSE buf

\* variant: nothing is evicted
EvictOldest_Never(buf) == buf

\* variant: the entry at the end, the latest, is dropped
EvictOldest_Latest(buf) ==
  IF Len(buf) > cfg.maxEntries THEN SubSeq(buf, 1, Len(buf) - 1) ELSE buf

\* Array.prototype.shift when the cap is exceeded (main.js:1136-1138)
EvictOldest(buf) == IF Len(buf) > cfg.maxEntries THEN Tail(buf) ELSE buf

\* the mutation of the create branch (main.js:1121-1139)
CreateEntry(buf, text, source, now) ==
  EvictOldest(SortByTimestamp(Append(buf,
    [id |-> now, timestamp |-> now, lastUpdated |-> now,
     source |-> source, text |-> text])))

\* the reconciliation of one result (main.js:1087-1143)
ReconcileResult(buf, raw, source, now) ==
  LET text == Trim(raw)
      decision == processTranscript(buf, text, source, now)
  IN IF text = <<>> THEN buf
     ELSE IF decision = "ignore" THEN buf
     ELSE IF decision = "append" THEN AppendToLatest(buf, text, source, now)
     ELSE CreateEntry(buf, text, source, now)

----------------------------------------------------------------------------
(* Inputs                                                                   *)

Str(word) == word    \* a text is written as a tuple of characters

TextFoo == <<"f","o","o">>
TextBar == <<"b","a","r">>
TextHelloThere == <<"h","e","l","l","o"," ","t","h","e","r","e">>
TextAndHowAreYou == <<"a","n","d"," ","h","o","w"," ","a","r","e"," ","y","o","u">>
TextEmpty == <<>>

\* what a transcription call may answer in the pipeline specification
PipelineTexts == {TextFoo, TextEmpty}

\* what it may answer in the reconciler specification
ReconTexts == {TextFoo, TextBar, TextHelloThere, TextAndHowAreYou}
ReconDeltas == {50, 10001}          \* time between a result and the event before it

TranscriptSources == {"You", "Other"}

NoRun == [since |-> NULL, len |-> 0]
NoScript == [loudness |-> <<>>, next |-> 1]

\* outcome of an I/O operation: failures only where the configuration has them
IoOutcomes == IF cfg.ioFaults THEN BOOLEAN ELSE {TRUE}

NoUpload == [from |-> NoPath, content |-> <<>>]

----------------------------------------------------------------------------
(* Initial state: the application after createWindow, not recording.        *)

Init ==
  /\ clock = Epoch
  /\ cfg = DefaultCfg
  /\ mainWindow = TRUE
  /\ isRecording = FALSE
  /\ recorders = [s \in Sources |-> FALSE]
  /\ streams = [s \in Sources |-> 0]
  /\ startPending = 0
  /\ vadState = [s \in Sources |-> InitialVad]
  /\ files = <<>>
  /\ uploads = [t \in TranscriptSources |-> NoUpload]
  /\ inflight = {}
  /\ transcriptBuffer = <<>>
  /\ finals = <<>>
  /\ recons = <<>>
  /\ sessions = 0
  /\ frames = 0
  /\ ignoredStops = 0
  /\ failures = 0
  /\ opened = [s \in Sources |-> 0]
  /\ quiet = [s \in Sources |-> NoRun]
  /\ script = NoScript

----------------------------------------------------------------------------
(* Handlers                                                                 *)

ApplyWorld(w) ==
  /\ vadState' = w.vad
  /\ files' = w.files
  /\ uploads' = w.uploads
  /\ inflight' = w.inflight
  /\ finals' = w.finals
  /\ clock' = w.now

WorldAt(t) == [World EXCEPT !.now = t]

\* variant: the state is reset without finalizing the active utterances
StopRecordingWorld_ResetOnly(w, okFinal) ==
  [w EXCEPT !.vad = [s \in Sources |-> InitialVad]]

\* stopRecording (main.js:1387-1468) past its guard: finalize both sources,
\* release the recorders, reset the VAD state
StopRecordingWorld(w, okFinal) ==
  LET w1 == IF w.vad["mic"].isActive
            THEN FinalizeUtterance(w, "mic", "recording-stopped", okFinal)
            ELSE w
      w2 == IF w1.vad["speaker"].isActive
            THEN FinalizeUtterance(w1, "speaker", "recording-stopped", okFinal)
            ELSE w1
  IN [w2 EXCEPT !.vad = [s \in Sources |-> InitialVad]]

\* startRecording up to its await (main.js:1161-1172), from the audio:start
\* request of the window
StartRecordingWithin(limit) ==
  /\ mainWindow
  /\ ~isRecording
  /\ sessions < limit
  /\ transcriptBuffer' = <<>>
  /\ startPending' = startPending + 1
  /\ sessions' = sessions + 1
  /\ UNCHANGED <<clock, cfg, ignoredStops, failures, opened, mainWindow, isRecording,
                 recorders, streams,
                 vadState, files, uploads, inflight, finals, recons, frames, quiet, script>>

StartRecordingBegin == StartRecordingWithin(MaxSessions)

\* startRecording after its await (main.js:1173-1385); the device detection
\* took StartDelay ms
StartRecordingResume ==
  /\ startPending > 0
  /\ \E deviceFound \in BOOLEAN, micOk \in BOOLEAN, speakerOk \in BOOLEAN :
       /\ startPending' = startPending - 1
       /\ IF ~deviceFound
          THEN /\ clock' = clock + StartDelay
               /\ UNCHANGED <<isRecording, recorders, streams, vadState, files,
                              uploads, inflight, finals>>
          ELSE IF ~micOk /\ ~speakerOk
          THEN \* neither recorder started: stopRecording() on the fresh state
               /\ ApplyWorld(StopRecordingWorld(
                    [WorldAt(clock + StartDelay) EXCEPT !.vad = [s \in Sources |-> InitialVad]],
                    TRUE))
               /\ recorders' = [s \in Sources |-> FALSE]
               /\ isRecording' = FALSE
               /\ UNCHANGED streams
          ELSE /\ ApplyWorld([WorldAt(clock + StartDelay) EXCEPT
                                !.vad = [s \in Sources |-> InitialVad]])
               /\ recorders' = [s \in Sources |-> TRUE]
               /\ streams' = [streams EXCEPT !["mic"] = @ + (IF micOk THEN 1 ELSE 0),
                                             !["speaker"] = @ + (IF speakerOk THEN 1 ELSE 0)]
               /\ isRecording' = TRUE
  /\ UNCHANGED <<cfg, ignoredStops, failures, opened, mainWindow, transcriptBuffer, recons,
                 sessions, frames, quiet, script>>

\* the run of consecutive frames below the silence threshold that a source
\* is in after a frame of loudness amplitude at time now
QuietAfter(run, amplitude, now) ==
  IF amplitude < cfg.silenceThreshold
  THEN IF run.len = 0 THEN [since |-> now, len |-> 1]
       ELSE [run EXCEPT !.len = @ + 1]
  ELSE NoRun

\* a data event of a capture stream (main.js:1303-1306, 1356-1359) at time now
DataEvent(source, amplitude, now, okWrite, okFinal) ==
  /\ streams[source] > 0
  /\ frames' = frames + 1
  /\ quiet' = [quiet EXCEPT ![source] = QuietAfter(@, amplitude, now)]
  /\ ApplyWorld(ProcessAudioForVAD(WorldAt(now), source,
                  Chunk(source), amplitude, okWrite, okFinal))
  /\ opened' = [opened EXCEPT ![source] =
                  IF vadState'[source].utteranceCount > vadState[source].utteranceCount
                  THEN vadState'[source].frameCount ELSE @]
  /\ UNCHANGED <<cfg, ignoredStops, failures, mainWindow, isRecording, recorders,
                 streams, startPending,
                 transcriptBuffer, recons, sessions>>

\* a data event dt ms after the event before it
Frame ==
  \E source \in Sources, amplitude \in Amps, dt \in Deltas,
     okWrite \in IoOutcomes, okFinal \in IoOutcomes :
    /\ frames < MaxFrames
    /\ DataEvent(source, amplitude, clock + dt, okWrite, okFinal)
    /\ UNCHANGED script

\* the close event of a capture stream (main.js:1282-1288, 1335-1341)
StreamClose ==
  \E source \in Sources, okFinal \in IoOutcomes :
    /\ streams[source] > 0
    /\ streams' = [streams EXCEPT ![source] = @ - 1]
    /\ ApplyWorld(IF vadState[source].isActive
                  THEN FinalizeUtterance(World, source, "stream-closed", okFinal)
                  ELSE World)
    /\ UNCHANGED <<cfg, ignoredStops, failures, opened, mainWindow, isRecording, recorders,
                   startPending,
                   transcriptBuffer, recons, sessions, frames, quiet, script>>

\* stopRecording (main.js:1387-1468), from the audio:stop request of the window
StopRecording ==
  \E okFinal \in IoOutcomes :
    /\ mainWindow
    /\ isRecording \/ recorders["mic"] \/ recorders["speaker"]
    /\ ApplyWorld(StopRecordingWorld(World, okFinal))
    /\ recorders' = [s \in Sources |-> FALSE]
    /\ isRecording' = FALSE
    /\ UNCHANGED <<cfg, ignoredStops, failures, opened, mainWindow, streams, startPending,
                   transcriptBuffer, recons, sessions, frames, quiet, script>>

\* the closed event of the main window (main.js:1498-1506): the reference is
\* cleared, then stopRecording runs
WindowClosed ==
  \E okFinal \in IoOutcomes :
    /\ mainWindow
    /\ mainWindow' = FALSE
    /\ IF isRecording \/ recorders["mic"] \/ recorders["speaker"]
       THEN /\ ApplyWorld(StopRecordingWorld(World, okFinal))
            /\ recorders' = [s \in Sources |-> FALSE]
            /\ isRecording' = FALSE
       ELSE /\ ApplyWorld(World)
            /\ UNCHANGED <<recorders, isRecording>>
    /\ UNCHANGED <<cfg, ignoredStops, failures, opened, streams, startPending,
                   transcriptBuffer, recons, sessions,
                   frames, quiet, script>>

\* fs.createReadStream(tempFilePath) (main.js:1044) opens the staging file
\* after the handler that created it has returned
ReadUpload ==
  \E c \in inflight :
    /\ c.sent = NoPath
    /\ inflight' = (inflight \ {c}) \cup {[c EXCEPT !.sent = uploads[c.source].from]}
    /\ UNCHANGED <<clock, cfg, ignoredStops, failures, opened, mainWindow, isRecording,
                   recorders, streams,
                   startPending, vadState, files, uploads, transcriptBuffer,
                   finals, recons, sessions, frames, quiet, script>>

\* variant: the payload is the transcript as the reconciliation found it
EmittedSnapshot_Stale(before, after) == before

\* the payload of transcript:update (main.js:1142): the transcript as it is
\* when the send is reached, after the mutation
EmittedSnapshot(before, after) == after

\* variant: the text is reconciled when the race was lost, too
HasText_AlsoOnError(isResult, text) == text # <<>>

\* transcription.text && transcription.text.trim() (main.js:1087), reached
\* only when the race resolved with a result: a rejection goes to the catch
\* block (main.js:1144-1146)
HasText(isResult, text) == isResult /\ text # <<>>

\* transcribeAudioChunk after its await (main.js:1060-1157) for call c: the
\* race is won by a result (raw text) or lost to an error or the timeout;
\* the finally block deletes the utterance file
SettleCall(c, now, isResult, raw) ==
  LET text == Trim(raw)
      reconciled == HasText(isResult, text)
      decision == processTranscript(transcriptBuffer, text, c.source, now)
      after == IF reconciled
               THEN ReconcileResult(transcriptBuffer, raw, c.source, now)
               ELSE transcriptBuffer
  IN
  /\ isResult => c.sent # NoPath /\ now - c.startedAt <= TRANSCRIPTION_TIMEOUT_MS
  /\ transcriptBuffer' = after
  /\ recons' = IF reconciled
               THEN Append(recons, [source |-> c.source, text |-> text,
                                    at |-> now, decision |-> decision,
                                    changed |-> after # transcriptBuffer,
                                    emitted |-> mainWindow,
                                    snapshot |-> EmittedSnapshot(transcriptBuffer, after),
                                    error |-> IF mainWindow THEN "none"
                                              ELSE "TypeError"])
               ELSE recons
  /\ inflight' = inflight \ {c}
  /\ files' = IF Exists(files, c.path) THEN Unlink(files, c.path) ELSE files
  /\ clock' = now
  /\ failures' = IF isResult THEN failures ELSE failures + 1
  /\ UNCHANGED <<cfg, ignoredStops, opened, mainWindow, isRecording, recorders,
                 streams, startPending, vadState, uploads, finals, sessions, frames,
                 quiet>>

Settle ==
  \E c \in inflight, isResult \in BOOLEAN, raw \in PipelineTexts :
    /\ ~isResult => raw = TextEmpty
    /\ SettleCall(c, clock, isResult, raw)
    /\ UNCHANGED script

Next ==
  \/ StartRecordingBegin
  \/ StartRecordingResume
  \/ Frame
  \/ StreamClose
  \/ StopRecording
  \/ WindowClosed
  \/ ReadUpload
  \/ Settle

Spec == Init /\ [][Next]_vars

----------------------------------------------------------------------------
(* SpecVad: one recording session, from the state startRecording leaves     *)
(* when both recorders started.  The buffer limit is the program's or a     *)
(* small one, so that the safety valve of main.js:91 is within reach.       *)

VadMaxFrames == 3         \* data events in a run of SpecVad
SmallBufferLimit == 1     \* the small value of VAD_BUFFER_LIMIT

VadConfigs == {DefaultCfg, [DefaultCfg EXCEPT !.bufferLimit = SmallBufferLimit]}

VadInit ==
  /\ clock = Epoch
  /\ cfg \in VadConfigs
  /\ mainWindow = TRUE
  /\ isRecording = TRUE
  /\ recorders = [s \in Sources |-> TRUE]
  /\ streams = [s \in Sources |-> 1]
  /\ startPending = 0
  /\ vadState = [s \in Sources |-> InitialVad]
  /\ files = <<>>
  /\ uploads = [t \in TranscriptSources |-> NoUpload]
  /\ inflight = {}
  /\ transcriptBuffer = <<>>
  /\ finals = <<>>
  /\ recons = <<>>
  /\ sessions = 1
  /\ frames = 0
  /\ ignoredStops = 0
  /\ failures = 0
  /\ opened = [s \in Sources |-> 0]
  /\ quiet = [s \in Sources |-> NoRun]
  /\ script = NoScript

VadFrame ==
  \E source \in Sources, amplitude \in Amps, dt \in Deltas,
     okWrite \in IoOutcomes, okFinal \in IoOutcomes :
    /\ frames < VadMaxFrames
    /\ DataEvent(source, amplitude, clock + dt, okWrite, okFinal)
    /\ UNCHANGED script

VadNext ==
  \/ VadFrame
  \/ StreamClose
  \/ StopRecording

SpecVad == VadInit /\ [][VadNext]_vars

----------------------------------------------------------------------------
(* SpecStop: one recording session in which the window asks for the         *)
(* recording to stop at any time, also when nothing is recording.           *)

StopMaxFrames == 2        \* data events in a run of SpecStop
MaxIgnoredStops == 1      \* stopRecording calls that return at the guard

StopFrame ==
  \E source \in Sources, amplitude \in Amps, dt \in Deltas,
     okWrite \in IoOutcomes, okFinal \in IoOutcomes :
    /\ frames < StopMaxFrames
    /\ DataEvent(source, amplitude, clock + dt, okWrite, okFinal)
    /\ UNCHANGED script

\* stopRecording (main.js:1387-1391) from the audio:stop request of the
\* window when nothing is recording: it returns at its guard
StopRecordingIgnored ==
  /\ mainWindow
  /\ ~(isRecording \/ recorders["mic"] \/ recorders["speaker"])
  /\ ignoredStops < MaxIgnoredStops
  /\ ignoredStops' = ignoredStops + 1
  /\ UNCHANGED <<clock, cfg, mainWindow, isRecording, recorders, streams,
                 startPending, vadState, files, uploads, inflight,
                 transcriptBuffer, finals, recons, sessions, frames, quiet,
                 failures, opened, script>>

StopNext ==
  \/ StopFrame
  \/ StreamClose
  \/ StopRecording
  \/ StopRecordingIgnored

SpecStop == VadInit /\ [][StopNext]_vars

----------------------------------------------------------------------------
(* SpecScenario: the frames of a scripted loudness sequence arrive on the   *)
(* microphone, 100 ms apart, under the scenario's configuration.   *)
(* The scripts are the sequence of the specification's scenario and every   *)
(* sequence that differs from it in one frame.                              *)

ScenarioCfg ==
  [DefaultCfg EXCEPT !.speechThreshold = 80, !.silenceThreshold = 50,
                     !.silenceDuration = 250, !.minUtterance = 200,
                     !.maxUtterance = 5000]

ScenarioLoudness == <<20, 20, 90, 95, 92, 40, 20, 20, 20, 20>>
ScenarioAmps == {20, 40, 50, 80, 90, 92, 95}

ScenarioScripts ==
  { [ScenarioLoudness EXCEPT ![i] = a] : i \in 1..Len(ScenarioLoudness), a \in ScenarioAmps }

\* arrival time of the i-th frame of a script
FrameTime(i) == Epoch + 100 * (i - 1)

ScenarioInit ==
  /\ clock = Epoch
  /\ cfg = ScenarioCfg
  /\ mainWindow = TRUE
  /\ isRecording = TRUE
  /\ recorders = [s \in Sources |-> TRUE]
  /\ streams = [s \in Sources |-> 1]
  /\ startPending = 0
  /\ vadState = [s \in Sources |-> InitialVad]
  /\ files = <<>>
  /\ uploads = [t \in TranscriptSources |-> NoUpload]
  /\ inflight = {}
  /\ transcriptBuffer = <<>>
  /\ finals = <<>>
  /\ recons = <<>>
  /\ sessions = 1
  /\ frames = 0
  /\ ignoredStops = 0
  /\ failures = 0
  /\ opened = [s \in Sources |-> 0]
  /\ quiet = [s \in Sources |-> NoRun]
  /\ \E l \in ScenarioScripts : script = [loudness |-> l, next |-> 1]

ScriptFrame ==
  /\ script.next <= Len(script.loudness)
  /\ DataEvent("mic", script.loudness[script.next], FrameTime(script.next), TRUE, TRUE)
  /\ script' = [script EXCEPT !.next = @ + 1]

ScenarioNext == ScriptFrame

SpecScenario == ScenarioInit /\ [][ScenarioNext]_vars

----------------------------------------------------------------------------
(* SpecRecon: the reconciler fed by transcription calls that settle in any  *)
(* order, from the state a stopped session leaves with MaxPending calls of  *)
(* each source in flight.  The entry cap is the program's or a small one.   *)

MaxPending == 3      \* calls in flight per source in the initial state
MaxResults == 3      \* calls that settle in a run
SmallCap == 2        \* the small value of MAX_TRANSCRIPT_ENTRIES

ReconConfigs == {DefaultCfg, [DefaultCfg EXCEPT !.maxEntries = SmallCap]}

\* the utterances of a source were opened VAD_MIN_UTTERANCE_MS apart, in the
\* order of their numbers
PendingPath(source, k) ==
  UtterancePath(source, k, Epoch - VAD_MIN_UTTERANCE_MS * (MaxPending + 1 - k))

PendingCalls ==
  { [path |-> PendingPath(source, k), source |-> TranscriptSource(source),
     startedAt |-> Epoch, sent |-> PendingPath(source, k)] :
      source \in Sources, k \in 1..MaxPending }

ReconInit ==
  /\ clock = Epoch
  /\ cfg \in ReconConfigs
  /\ mainWindow = TRUE
  /\ isRecording = FALSE
  /\ recorders = [s \in Sources |-> FALSE]
  /\ streams = [s \in Sources |-> 0]
  /\ startPending = 0
  /\ vadState = [s \in Sources |-> InitialVad]
  /\ files = [p \in {c.path : c \in PendingCalls} |->
                [header |-> TRUE, channels |-> Channels(p.source),
                 riffSize |-> WAV_HEADER_BYTES - 8 + FrameBytes, dataSize |-> FrameBytes,
                 data |-> <<1>>]]
  /\ uploads = [t \in TranscriptSources |-> NoUpload]
  /\ inflight = PendingCalls
  /\ transcriptBuffer = <<>>
  /\ finals = <<>>
  /\ recons = <<>>
  /\ sessions = 1
  /\ frames = 0
  /\ ignoredStops = 0
  /\ failures = 0
  /\ opened = [s \in Sources |-> 0]
  /\ quiet = [s \in Sources |-> NoRun]
  /\ script = NoScript

\* The calls of one source differ in their file only, and what a call answers
\* is chosen when it settles: the one with the least utterance number settles.
ReconSettle ==
  \E c \in inflight, dt \in ReconDeltas, isResult \in BOOLEAN, raw \in ReconTexts :
    /\ Cardinality(PendingCalls) - Cardinality(inflight) < MaxResults
    /\ \A d \in inflight : d.source = c.source => c.path.count <= d.path.count
    /\ ~isResult => raw = TextFoo
    /\ SettleCall(c, clock + dt, isResult, raw)
    /\ UNCHANGED script

ReconNext == ReconSettle

SpecRecon == ReconInit /\ [][ReconNext]_vars

----------------------------------------------------------------------------
(* SpecTeardown: the reconciler of SpecRecon, with a main window that can   *)
(* be closed while calls are in flight, on the small entry cap.             *)

TeardownInit ==
  /\ ReconInit
  /\ cfg.maxEntries = SmallCap

TeardownNext ==
  \/ ReconSettle
  \/ WindowClosed

SpecTeardown == TeardownInit /\ [][TeardownNext]_vars

----------------------------------------------------------------------------
(* SpecIo: one recording session in which any write to an utterance file    *)
(* (fs.writeFileSync, fs.appendFileSync, the header patch) can throw.       *)
(* script holds the source and the outcomes of the latest data event.       *)

IoMaxFrames == 2          \* data events in a run of SpecIo

IoInit ==
  /\ clock = Epoch
  /\ cfg = [DefaultCfg EXCEPT !.ioFaults = TRUE]
  /\ mainWindow = TRUE
  /\ isRecording = TRUE
  /\ recorders = [s \in Sources |-> TRUE]
  /\ streams = [s \in Sources |-> 1]
  /\ startPending = 0
  /\ vadState = [s \in Sources |-> InitialVad]
  /\ files = <<>>
  /\ uploads = [t \in TranscriptSources |-> NoUpload]
  /\ inflight = {}
  /\ transcriptBuffer = <<>>
  /\ finals = <<>>
  /\ recons = <<>>
  /\ sessions = 1
  /\ frames = 0
  /\ ignoredStops = 0
  /\ failures = 0
  /\ opened = [s \in Sources |-> 0]
  /\ quiet = [s \in Sources |-> NoRun]
  /\ script = [source |-> "none", okWrite |-> TRUE, okFinal |-> TRUE]

IoFrame ==
  \E source \in Sources, amplitude \in Amps, dt \in Deltas,
     okWrite \in IoOutcomes, okFinal \in IoOutcomes :
    /\ frames < IoMaxFrames
    /\ DataEvent(source, amplitude, clock + dt, okWrite, okFinal)
    /\ script' = [source |-> source, okWrite |-> okWrite, okFinal |-> okFinal]

IoNext ==
  \/ IoFrame
  \/ StopRecording

SpecIo == IoInit /\ [][IoNext]_vars

----------------------------------------------------------------------------
(* SpecFailure: a recording session with one transcription call of each     *)
(* source in flight, from the state that the silence finalization of each   *)
(* source's first utterance leaves.  Frames keep arriving while the calls   *)
(* fail or answer, in any order.                                            *)

FailMaxFrames == 2       \* data events in a run of SpecFailure

FirstCalls == {c \in PendingCalls : c.path.count = 1}

AfterFirstUtterance ==
  [InitialVad EXCEPT !.frameCount = 3, !.lastAmplitude = 20, !.utteranceCount = 1]

FailureInit ==
  /\ clock = Epoch
  /\ cfg = DefaultCfg
  /\ mainWindow = TRUE
  /\ isRecording = TRUE
  /\ recorders = [s \in Sources |-> TRUE]
  /\ streams = [s \in Sources |-> 1]
  /\ startPending = 0
  /\ vadState = [s \in Sources |-> AfterFirstUtterance]
  /\ files = [p \in {c.path : c \in FirstCalls} |->
                [header |-> TRUE, channels |-> Channels(p.source),
                 riffSize |-> WAV_HEADER_BYTES - 8 + FrameBytes, dataSize |-> FrameBytes,
                 data |-> <<1>>]]
  /\ uploads = [t \in TranscriptSources |-> NoUpload]
  /\ inflight = FirstCalls
  /\ transcriptBuffer = <<>>
  /\ finals = <<>>
  /\ recons = <<>>
  /\ sessions = 1
  /\ frames = 0
  /\ ignoredStops = 0
  /\ failures = 0
  /\ opened = [s \in Sources |-> 0]
  /\ quiet = [s \in Sources |-> NoRun]
  /\ script = NoScript

FailureFrame ==
  \E source \in Sources, amplitude \in Amps, dt \in Deltas,
     okWrite \in IoOutcomes, okFinal \in IoOutcomes :
    /\ frames < FailMaxFrames
    /\ DataEvent(source, amplitude, clock + dt, okWrite, okFinal)
    /\ UNCHANGED script

\* a call in flight loses its race (error or timeout) or wins it with "foo"
FailureSettle ==
  \E c \in inflight, isResult \in BOOLEAN :
    /\ SettleCall(c, clock, isResult, TextFoo)
    /\ UNCHANGED script

FailureNext ==
  \/ FailureFrame
  \/ FailureSettle

SpecFailure == FailureInit /\ [][FailureNext]_vars

----------------------------------------------------------------------------
(* SpecOrder: the calls of SpecRecon, each answering with what was said in  *)
(* its utterance, settle in any order.                                      *)

\* what was said in utterance k of a source
Spoken(k) ==
  IF k = 1 THEN TextFoo
  ELSE IF k = 2 THEN TextBar
  ELSE IF k = 3 THEN TextHelloThere
  ELSE TextAndHowAreYou

OrderInit ==
  /\ ReconInit
  /\ cfg = DefaultCfg

OrderSettle ==
  \E c \in inflight, dt \in ReconDeltas, isResult \in BOOLEAN :
    /\ Cardinality(PendingCalls) - Cardinality(inflight) < MaxResults
    /\ SettleCall(c, clock + dt, isResult, Spoken(c.path.count))
    /\ UNCHANGED script

OrderNext == OrderSettle

SpecOrder == OrderInit /\ [][OrderNext]_vars

----------------------------------------------------------------------------
(* SpecRestart: the application right after the stopRecording that ended    *)
(* its first session.  The first utterance of each source is with the API,  *)
(* the recorders were told to stop and their streams have not closed yet.   *)
(* The window asks for new sessions; the streams deliver frames and close   *)
(* events, and the calls settle.                                            *)

MaxRestarts == 2         \* startRecording calls in a run of SpecRestart
RestartMaxFrames == 1    \* data events in a run of SpecRestart

RestartInit ==
  /\ clock = Epoch
  /\ cfg = DefaultCfg
  /\ mainWindow = TRUE
  /\ isRecording = FALSE
  /\ recorders = [s \in Sources |-> FALSE]
  /\ streams = [s \in Sources |-> 1]
  /\ startPending = 0
  /\ vadState = [s \in Sources |-> InitialVad]
  /\ files = [p \in {c.path : c \in FirstCalls} |->
                [header |-> TRUE, channels |-> Channels(p.source),
                 riffSize |-> WAV_HEADER_BYTES - 8 + FrameBytes, dataSize |-> FrameBytes,
                 data |-> <<1>>]]
  /\ uploads = [t \in TranscriptSources |->
                  LET c == CHOOSE d \in FirstCalls : d.source = t
                  IN [from |-> c.path, content |-> files[c.path]]]
  /\ inflight = FirstCalls
  /\ transcriptBuffer = <<>>
  /\ finals = <<>>
  /\ recons = <<>>
  /\ sessions = 1
  /\ frames = 0
  /\ ignoredStops = 0
  /\ failures = 0
  /\ opened = [s \in Sources |-> 0]
  /\ quiet = [s \in Sources |-> NoRun]
  /\ script = NoScript

Restart == StartRecordingWithin(1 + MaxRestarts)

\* a quiet or a loud frame, VAD_MIN_UTTERANCE_MS after the event before it
RestartFrame ==
  \E source \in Sources, amplitude \in {20, 90} :
    /\ frames < RestartMaxFrames
    /\ DataEvent(source, amplitude, clock + VAD_MIN_UTTERANCE_MS, TRUE, TRUE)
    /\ UNCHANGED script

RestartNext ==
  \/ Restart
  \/ StartRecordingResume
  \/ RestartFrame
  \/ StreamClose
  \/ FailureSettle

SpecRestart == RestartInit /\ [][RestartNext]_vars

----------------------------------------------------------------------------
(* FairSpecCleanup: the runs from the state of SpecRestart in which what    *)
(* the code schedules does happen.  The race of a call in flight ends at    *)
(* the latest when its timeout timer fires (main.js:1053-1057), the stream  *)
(* of a recorder closes when its process exits, and the device detection    *)
(* of startRecording returns.                                               *)

CleanupMaxRestarts == 1  \* startRecording calls in a run of SpecCleanup
CleanupMaxFrames == 1    \* data events in a run of SpecCleanup

CleanupRestart == StartRecordingWithin(1 + CleanupMaxRestarts)

CleanupFrame ==
  \E source \in Sources, amplitude \in {20, 90} :
    /\ frames < CleanupMaxFrames
    /\ DataEvent(source, amplitude, clock + VAD_MIN_UTTERANCE_MS, TRUE, TRUE)
    /\ UNCHANGED script

CleanupNext ==
  \/ CleanupRestart
  \/ StartRecordingResume
  \/ CleanupFrame
  \/ StreamClose
  \/ FailureSettle

SpecCleanup == RestartInit /\ [][CleanupNext]_vars

FairSpecCleanup ==
  /\ SpecCleanup
  /\ WF_vars(FailureSettle)
  /\ WF_vars(StreamClose)
  /\ WF_vars(StartRecordingResume)

----------------------------------------------------------------------------
(* SpecUpload: the session of SpecFailure at the moment the first utterance *)
(* of each source has been staged at the source's upload path and its read  *)
(* stream has not opened the staging file yet.  Frames keep arriving,       *)
(* streams close, read streams open and calls settle, in any order.         *)

UploadInit ==
  /\ clock = Epoch
  /\ cfg = DefaultCfg
  /\ mainWindow = TRUE
  /\ isRecording = TRUE
  /\ recorders = [s \in Sources |-> TRUE]
  /\ streams = [s \in Sources |-> 1]
  /\ startPending = 0
  /\ vadState = [s \in Sources |-> AfterFirstUtterance]
  /\ files = [p \in {c.path : c \in FirstCalls} |->
                [header |-> TRUE, channels |-> Channels(p.source),
                 riffSize |-> WAV_HEADER_BYTES - 8 + FrameBytes, dataSize |-> FrameBytes,
                 data |-> <<1>>]]
  /\ uploads = [t \in TranscriptSources |->
                  LET c == CHOOSE d \in FirstCalls : d.source = t
                  IN [from |-> c.path, content |-> files[c.path]]]
  /\ inflight = {[c EXCEPT !.sent = NoPath] : c \in FirstCalls}
  /\ transcriptBuffer = <<>>
  /\ finals = <<>>
  /\ recons = <<>>
  /\ sessions = 1
  /\ frames = 0
  /\ ignoredStops = 0
  /\ failures = 0
  /\ opened = [s \in Sources |-> 0]
  /\ quiet = [s \in Sources |-> NoRun]
  /\ script = NoScript

UploadNext ==
  \/ FailureFrame
  \/ StreamClose
  \/ ReadUpload
  \/ FailureSettle

SpecUpload == UploadInit /\ [][UploadNext]_vars

----------------------------------------------------------------------------
(* SpecReconScenario: a scripted sequence of results is reconciled, one     *)
(* call per result, under the program's configuration.  The scripts are the *)
(* sequence "hello there", "hello there", "and how are you" of the          *)
(* microphone at 0, 100 and 2000 ms, every sequence that differs from it in *)
(* the text or the source of one result, and each of these with the results *)
(* from some position on arriving one continuation window later.            *)

ScenarioResults ==
  << [text |-> TextHelloThere, source |-> "You", at |-> 0],
     [text |-> TextHelloThere, source |-> "You", at |-> 100],
     [text |-> TextAndHowAreYou, source |-> "You", at |-> 2000] >>

ResultScripts ==
  { [i \in 1..Len(ScenarioResults) |->
       [text |-> IF i = k THEN t ELSE ScenarioResults[i].text,
        source |-> IF i = k THEN s ELSE ScenarioResults[i].source,
        at |-> ScenarioResults[i].at
                 + (IF i >= j THEN TRANSCRIPT_CONTINUATION_WINDOW ELSE 0)]] :
      k \in 1..Len(ScenarioResults), t \in ReconTexts, s \in TranscriptSources,
      j \in 1..(Len(ScenarioResults) + 1) }

ReconScenarioInit ==
  /\ clock = Epoch
  /\ cfg = DefaultCfg
  /\ mainWindow = TRUE
  /\ isRecording = FALSE
  /\ recorders = [s \in Sources |-> FALSE]
  /\ streams = [s \in Sources |-> 0]
  /\ startPending = 0
  /\ vadState = [s \in Sources |-> InitialVad]
  /\ files = [p \in {c.path : c \in PendingCalls} |->
                [header |-> TRUE, channels |-> Channels(p.source),
                 riffSize |-> WAV_HEADER_BYTES - 8 + FrameBytes, dataSize |-> FrameBytes,
                 data |-> <<1>>]]
  /\ uploads = [t \in TranscriptSources |-> NoUpload]
  /\ inflight = PendingCalls
  /\ transcriptBuffer = <<>>
  /\ finals = <<>>
  /\ recons = <<>>
  /\ sessions = 1
  /\ frames = 0
  /\ ignoredStops = 0
  /\ failures = 0
  /\ opened = [s \in Sources |-> 0]
  /\ quiet = [s \in Sources |-> NoRun]
  /\ \E r \in ResultScripts : script = [results |-> r, next |-> 1]

\* the next result of the script settles the oldest call of its source
ScriptResult ==
  /\ script.next <= Len(script.results)
  /\ LET r == script.results[script.next] IN
     \E c \in inflight :
       /\ c.source = r.source
       /\ \A d \in inflight : d.source = c.source => c.path.count <= d.path.count
       /\ SettleCall(c, Epoch + r.at, TRUE, r.text)
  /\ script' = [script EXCEPT !.next = @ + 1]

ReconScenarioNext == ScriptResult

SpecReconScenario == ReconScenarioInit /\ [][ReconScenarioNext]_vars

----------------------------------------------------------------------------
(* SpecSimilarity: calculateTextSimilarity applied to a pair of texts.      *)
(* script holds the two arguments and, once the call has run, the results   *)
(* of the two copies of the function.                                       *)

SimilarityTexts ==
  { <<>>,
    <<" ">>,
    <<"a">>,
    <<" ", "a", " ">>,
    <<"a", "b">>,
    <<"a", " ", "b">>,
    <<"b", " ", "a">>,
    <<"A", " ", "B">>,
    <<"a", " ", " ", "b">>,
    <<"c", " ", "d">>,
    <<"a", " ", "b", " ", "c", " ", "d", " ", "e">>,
    <<"a", " ", "b", " ", "c", " ", "d", " ", "e", " ", "f", " ", "g", " ", "h", " ", "i">> }

\* the state in which no handler of the pipeline runs
Idle ==
  /\ clock = Epoch
  /\ cfg = DefaultCfg
  /\ mainWindow = TRUE
  /\ isRecording = FALSE
  /\ recorders = [s \in Sources |-> FALSE]
  /\ streams = [s \in Sources |-> 0]
  /\ startPending = 0
  /\ vadState = [s \in Sources |-> InitialVad]
  /\ files = <<>>
  /\ uploads = [t \in TranscriptSources |-> NoUpload]
  /\ inflight = {}
  /\ transcriptBuffer = <<>>
  /\ finals = <<>>
  /\ recons = <<>>
  /\ sessions = 0
  /\ frames = 0
  /\ ignoredStops = 0
  /\ failures = 0
  /\ opened = [s \in Sources |-> 0]
  /\ quiet = [s \in Sources |-> NoRun]

StayIdle ==
  UNCHANGED <<clock, cfg, ignoredStops, failures, opened, mainWindow, isRecording, recorders,
              streams, startPending,
              vadState, files, uploads, inflight, transcriptBuffer, finals, recons,
              sessions, frames, quiet>>

SimilarityInit ==
  /\ Idle
  /\ \E t1 \in SimilarityTexts, t2 \in SimilarityTexts :
       script = [text1 |-> t1, text2 |-> t2, done |-> FALSE,
                 similarity |-> <<0, 1>>, withContainment |-> <<0, 1>>]

CallSimilarity ==
  /\ ~script.done
  /\ script' = [script EXCEPT
                  !.done = TRUE,
                  !.similarity = calculateTextSimilarity(script.text1, script.text2),
                  !.withContainment =
                     calculateTextSimilarityWithContainment(script.text1, script.text2)]
  /\ StayIdle

SimilarityNext == CallSimilarity

SpecSimilarity == SimilarityInit /\ [][SimilarityNext]_vars

----------------------------------------------------------------------------
(* SpecThreshold: processTranscript decides on one new text against one     *)
(* latest entry of the same source, under each value given in turn to       *)
(* TRANSCRIPT_SIMILARITY_THRESHOLD.  script holds the entry's text, the     *)
(* new text, the time since the entry's last update and the decisions       *)
(* taken so far, each with the threshold it was taken under.                *)

\* values of the threshold: below the default, the default (main.js:50), and
\* the value of the later copy (main.js:2457)
Thresholds == {<<3, 10>>, TRANSCRIPT_SIMILARITY_THRESHOLD, <<7, 10>>}

\* fraction a is below fraction b
Below(a, b) == a[1] * b[2] < b[1] * a[2]

\* a transcript holding one entry of source "You" last updated at Epoch
LatestOnly(text) ==
  << [id |-> Epoch, timestamp |-> Epoch, lastUpdated |-> Epoch,
      source |-> "You", text |-> text] >>

ThresholdInit ==
  /\ Idle
  /\ \E t1 \in SimilarityTexts \ {<<>>}, t2 \in SimilarityTexts \ {<<>>}, gap \in ReconDeltas :
       script = [latest |-> t1, text |-> t2, gap |-> gap, decisions |-> {}]

\* the constant is edited to a value not tried yet
ConfigureThreshold ==
  \E t \in Thresholds :
    /\ t # cfg.similarity
    /\ \A d \in script.decisions : d.threshold # t
    /\ \E d \in script.decisions : d.threshold = cfg.similarity
    /\ cfg' = [cfg EXCEPT !.similarity = t]
    /\ UNCHANGED <<clock, ignoredStops, failures, opened, mainWindow, isRecording, recorders,
                   streams, startPending, vadState, files, uploads, inflight,
                   transcriptBuffer, finals, recons, sessions, frames, quiet, script>>

DecideUnderThreshold ==
  /\ \A d \in script.decisions : d.threshold # cfg.similarity
  /\ script' = [script EXCEPT !.decisions = @ \cup
                  {[threshold |-> cfg.similarity,
                    decision |-> processTranscript(LatestOnly(script.latest), script.text,
                                                   "You", Epoch + script.gap)]}]
  /\ StayIdle

ThresholdNext ==
  \/ ConfigureThreshold
  \/ DecideUnderThreshold

SpecThreshold == ThresholdInit /\ [][ThresholdNext]_vars

----------------------------------------------------------------------------
(* SpecWav: initializeWavFile, appendToWavFile and finalizeWavFile applied  *)
(* to one file, with buffers of up to 1 GiB.  Lengths are counted in units  *)
(* of 4 bytes, one 16-bit stereo sample pair, so that 2^32 bytes, one more  *)
(* than a UInt32 field holds, is the number 2^30.  script holds the file    *)
(* and the units appended to it so far.                                     *)

MaxAppends == 5                    \* appendToWavFile calls in a run of SpecWav
VAD_SAMPLE_RATE == 44100
BITS_PER_SAMPLE == 16
UInt32Range == 1073741824          \* 2^32 bytes, in units of 4 bytes
HeaderUnits == WAV_HEADER_BYTES \div 4
AppendUnits == {1, 3, UInt32Range \div 4}    \* 4 bytes, 12 bytes, 1 GiB

NoFile == [exists |-> FALSE, channels |-> 0, sampleRate |-> 0, bitsPerSample |-> 0,
           riffSize |-> 0, dataSize |-> 0, data |-> 0]

\* initializeWavFile (main.js:285-327): the 44-byte header, sizes zero
initializeWavFile(channels) ==
  [exists |-> TRUE, channels |-> channels, sampleRate |-> VAD_SAMPLE_RATE,
   bitsPerSample |-> BITS_PER_SAMPLE, riffSize |-> 0, dataSize |-> 0, data |-> 0]

\* appendToWavFile (main.js:335-342)
appendToWavFile(file, units) == [file EXCEPT !.data = @ + units]

\* variant: a size that does not fit its field wraps around
finalizeWavFile_Wrapping(file) ==
  LET fileSize == HeaderUnits + file.data IN
  [file EXCEPT !.riffSize = (fileSize - 2) % UInt32Range,
               !.dataSize = (fileSize - HeaderUnits) % UInt32Range]

\* finalizeWavFile (main.js:349-374): writeUInt32LE throws a RangeError on a
\* value above 2^32 - 1, before the file is opened; the error is caught and
\* logged and the header keeps its placeholders
finalizeWavFile(file) ==
  LET fileSize == HeaderUnits + file.data IN
  IF fileSize - 2 >= UInt32Range \/ fileSize - HeaderUnits >= UInt32Range
  THEN file
  ELSE [file EXCEPT !.riffSize = fileSize - 2,
                    !.dataSize = fileSize - HeaderUnits]

WavInit ==
  /\ Idle
  /\ \E channels \in {1, 2} :
       script = [channels |-> channels, file |-> NoFile, appends |-> 0,
                 finalized |-> FALSE]

WavOpen ==
  /\ ~script.file.exists
  /\ script' = [script EXCEPT !.file = initializeWavFile(script.channels)]
  /\ StayIdle

WavAppend ==
  \E units \in AppendUnits :
    /\ script.file.exists
    /\ ~script.finalized
    /\ script.appends < MaxAppends
    /\ script' = [script EXCEPT !.file = appendToWavFile(@, units),
                                !.appends = @ + 1]
    /\ StayIdle

WavFinalize ==
  /\ script.file.exists
  /\ ~script.finalized
  /\ script' = [script EXCEPT !.file = finalizeWavFile(@), !.finalized = TRUE]
  /\ StayIdle

WavNext ==
  \/ WavOpen
  \/ WavAppend
  \/ WavFinalize

SpecWav == WavInit /\ [][WavNext]_vars

----------------------------------------------------------------------------
(* SpecSampler: the first statements of processAudioForVAD applied to a     *)
(* buffer: extractSamplesFromBuffer, then calculateAmplitude.  script holds *)
(* the buffer and, once the call has run, its outcome.                      *)

MaxBytes == 4                \* length of the enumerated buffers
ByteValues == {0, 1, 255}    \* the bytes of the enumerated buffers
ByteOffsets == {0, 1, 2}     \* where a buffer starts in its ArrayBuffer

\* two buffers long enough for calculateAmplitude to skip samples: 200
\* samples, all zero, or zero at the even and one at the odd positions
LongBuffers ==
  { [i \in 1..400 |-> 0],
    [i \in 1..400 |-> IF i % 4 = 3 THEN 1 ELSE 0] }

RECURSIVE BytesOfLength(_)
BytesOfLength(n) ==
  IF n = 0 THEN {<<>>}
  ELSE {Append(b, v) : b \in BytesOfLength(n - 1), v \in ByteValues}

SampledBuffers ==
  { [bytes |-> b, byteOffset |-> o] :
      b \in LongBuffers \cup UNION {BytesOfLength(n) : n \in 0..MaxBytes},
      o \in ByteOffsets }

SamplerInit ==
  /\ Idle
  /\ \E buffer \in SampledBuffers :
       script = [buffer |-> buffer, done |-> FALSE, error |-> "none",
                 samples |-> <<>>, amplitude |-> <<0, 1>>]

CallSampler ==
  /\ ~script.done
  /\ LET extracted == extractSamplesFromBuffer(script.buffer) IN
     script' = [script EXCEPT
                  !.done = TRUE,
                  !.error = extracted.error,
                  !.samples = extracted.samples,
                  !.amplitude = IF extracted.error = "none"
                                THEN calculateAmplitude(extracted.samples)
                                ELSE @]
  /\ StayIdle

SamplerNext == CallSampler

SpecSampler == SamplerInit /\ [][SamplerNext]_vars

----------------------------------------------------------------------------
(* Properties of the voice activity detector, checked under SpecVad.  The   *)
(* log finals holds one record per run of finalizeUtterance past its guard: *)
(* start and at are the utteranceStart it read and the clock it ran at.     *)

\* C1: an utterance is dispatched for transcription only if its duration at
\* finalization reaches the minimum utterance duration; a shorter one is
\* discarded, whatever the reason: its file is deleted and no transcription
\* call is ever made for it.
C1_MinDurationGate ==
  \A i \in 1..Len(finals) :
    LET f == finals[i]
        span == f.at - f.start
    IN /\ f.outcome = "dispatched" => span >= cfg.minUtterance
       /\ span < cfg.minUtterance =>
            /\ f.outcome = "discarded"
            /\ ~Exists(files, f.path)
            /\ \A c \in inflight : c.path # f.path

\* one utterance was discarded as too short and another was dispatched
C1_Witness ==
  \E i, j \in 1..Len(finals) :
    /\ finals[i].outcome = "discarded"
    /\ finals[i].at - finals[i].start < cfg.minUtterance
    /\ finals[j].outcome = "dispatched"

C3_ForcedSplitInSameFrame ==
  [][/\ \A s \in Sources :
          LET p == vadState[s].audioPath IN
          (/\ vadState'[s].frameCount = vadState[s].frameCount + 1
           /\ vadState[s].isActive
           /\ clock' - vadState[s].utteranceStart > cfg.maxUtterance)
          => /\ Len(finals') = Len(finals) + 1
             /\ finals'[Len(finals')].path = p
             /\ finals'[Len(finals')].source = s
             /\ vadState'[s].audioPath # p
             /\ Exists(files, p) /\ Exists(files', p)
                  => files'[p].data = files[p].data
     /\ \A i \in 1..Len(finals) :
          LET p == finals[i].path IN
          Exists(files, p) /\ Exists(files', p) => files'[p].data = files[p].data
    ]_vars

\* after a split at the maximum duration the source is recording the next
\* utterance into another file
C3_Witness ==
  \E i \in 1..Len(finals) :
    LET s == finals[i].source IN
    /\ finals[i].reason = "max-duration"
    /\ vadState[s].isActive
    /\ vadState[s].audioPath # finals[i].path
    /\ vadState[s].utteranceStart = finals[i].at

C5_SpeechResetsSilence ==
  [][\A s \in Sources :
       (/\ vadState'[s].frameCount = vadState[s].frameCount + 1
        /\ vadState[s].isActive
        /\ vadState'[s].lastAmplitude >= cfg.silenceThreshold
        /\ Len(finals') = Len(finals))
       => /\ vadState'[s].isActive
          /\ ~vadState'[s].isSilence
          /\ vadState'[s].silenceStart = NULL
          /\ vadState'[s].utteranceStart = vadState[s].utteranceStart
          /\ vadState'[s].audioPath = vadState[s].audioPath
    ]_vars

\* a frame between the two thresholds was appended to an active utterance
\* and left it out of silence
C5_Witness ==
  \E s \in Sources :
    /\ vadState[s].isActive
    /\ ~vadState[s].isSilence
    /\ vadState[s].silenceStart = NULL
    /\ vadState[s].lastAmplitude >= cfg.silenceThreshold
    /\ vadState[s].lastAmplitude <= cfg.speechThreshold
    /\ Exists(files, vadState[s].audioPath)
    /\ Len(files[vadState[s].audioPath].data) >= 2

\* C18 as stated: whenever stopRecording is called, or the stream of a
\* source closes, while the source is active, the utterance in progress is
\* finalized in that step and the source is inactive afterwards.
C18_EveryStopFinalizes ==
  [][\A s \in Sources :
       LET called == (isRecording /\ ~isRecording') \/ ignoredStops' > ignoredStops
           closed == streams'[s] < streams[s]
       IN ((called \/ closed) /\ vadState[s].isActive) =>
            /\ \E i \in (Len(finals) + 1)..Len(finals') :
                 finals'[i].source = s /\ finals'[i].path = vadState[s].audioPath
            /\ ~vadState'[s].isActive
    ]_vars

\* C18: the step in which stopRecording passes its guard (a recording is in
\* progress or a recorder exists), or in which the stream of a source
\* closes, finalizes the utterance in progress of each source concerned: it
\* is dispatched when its duration reaches the minimum, with its file
\* complete and a transcription call started for it unless no frame was
\* recorded, and discarded with its file deleted otherwise; the step leaves
\* the source inactive with timestamps and audioPath cleared, and a stop
\* leaves no recorder.  A stopRecording call that returns at its guard
\* finalizes nothing and changes no state.
C18_StopFinalizesInProgress ==
  [][/\ ignoredStops' > ignoredStops =>
          /\ vadState' = vadState /\ finals' = finals
          /\ files' = files /\ inflight' = inflight
     /\ \A s \in Sources :
       LET stopped == isRecording /\ ~isRecording'
           closed == streams'[s] < streams[s]
           state == vadState[s]
           p == state.audioPath
       IN (stopped \/ closed) =>
            /\ ~vadState'[s].isActive
            /\ vadState'[s].utteranceStart = NULL
            /\ vadState'[s].silenceStart = NULL
            /\ vadState'[s].audioPath = NoPath
            /\ stopped => ~recorders'[s] /\ vadState'[s] = InitialVad
            /\ state.isActive =>
                 \E i \in (Len(finals) + 1)..Len(finals') :
                   LET f == finals'[i] IN
                   /\ f.source = s /\ f.path = p
                   /\ f.start = state.utteranceStart /\ f.at = clock'
                   /\ f.reason = IF stopped THEN "recording-stopped" ELSE "stream-closed"
                   /\ IF f.at - f.start >= cfg.minUtterance
                      THEN /\ f.outcome = "dispatched"
                           /\ IF files[p].data = <<>>
                              THEN ~Exists(files', p)
                              ELSE /\ Exists(files', p)
                                   /\ files'[p].data = files[p].data
                                   /\ files'[p].header
                                   /\ files'[p].dataSize = FrameBytes * Len(files[p].data)
                                   /\ \E c \in inflight' :
                                        c.path = p /\ c.source = TranscriptSource(s)
                      ELSE /\ f.outcome = "discarded"
                           /\ ~Exists(files', p)
                           /\ \A c \in inflight' : c.path # p
    ]_vars

\* the recording was stopped while an utterance with a recorded frame was in
\* progress, and a transcription call for it is in flight
C18_Witness ==
  /\ ~isRecording
  /\ \E i \in 1..Len(finals) :
       /\ finals[i].reason = "recording-stopped"
       /\ finals[i].outcome = "dispatched"
       /\ finals[i].content # <<>>
       /\ \E c \in inflight : c.path = finals[i].path
       /\ ~vadState[finals[i].source].isActive

\* this step is a data event of source
FrameOf(source) ==
  /\ frames' = frames + 1
  /\ vadState'[source].frameCount = vadState[source].frameCount + 1

\* this step is the close event of the stream of source
CloseOf(source) == streams'[source] = streams[source] - 1

\* this step is a data event of source in which the safety valve finalized
\* the utterance in progress
CutByValve(source) ==
  /\ FrameOf(source)
  /\ Len(finals') = Len(finals) + 1
  /\ finals'[Len(finals')].source = source
  /\ finals'[Len(finals')].reason = "buffer-limit"

\* frames of the utterance in progress of source, the opening frame included
FramesOfUtterance(source) == vadState[source].frameCount - opened[source] + 1

\* C26: the safety valve finalizes an utterance only when the frames
\* buffered since the utterance started exceed VAD_BUFFER_LIMIT.
C26_ValveCutsLongUtterancesOnly ==
  [][\A source \in Sources :
       CutByValve(source) => FramesOfUtterance(source) > cfg.bufferLimit
    ]_vars

\* C26, as the code has it: the safety valve finalizes an utterance only
\* when the frames in the rolling buffer, those that arrived in silence
\* before the utterance included, exceed VAD_BUFFER_LIMIT.
C26_ValveCutsOnFullBuffer ==
  [][\A source \in Sources :
       CutByValve(source) => Len(vadState[source].audioBuffers) > cfg.bufferLimit
    ]_vars

\* the valve has cut an utterance on a frame that then opened the next one
C26_Witness ==
  \E i \in 1..Len(finals) :
    /\ finals[i].reason = "buffer-limit"
    /\ vadState[finals[i].source].isActive
    /\ vadState[finals[i].source].utteranceStart = finals[i].at

\* this step is a data event of source, loud enough to be speech, in which
\* the utterance in progress was finalized for its duration
SplitWhileSpeaking(source) ==
  /\ FrameOf(source)
  /\ Len(finals') = Len(finals) + 1
  /\ finals'[Len(finals')].source = source
  /\ finals'[Len(finals')].reason = "max-duration"
  /\ vadState'[source].lastAmplitude > cfg.speechThreshold

\* in the same step a new utterance of source was opened: the source is
\* active and its sequence counter has advanced by one
ReopenedInStep(source) ==
  /\ vadState'[source].isActive
  /\ vadState'[source].utteranceStart = clock'
  /\ vadState'[source].utteranceCount = vadState[source].utteranceCount + 1
  /\ Exists(files', vadState'[source].audioPath)

\* C27: a frame of speech on which max-duration forces the finalization
\* opens a new utterance in the same step, the source active and the
\* counter one higher, and the frame's bytes are in the new utterance's
\* audio.
C27_SplitContinuesFromFrame ==
  [][\A source \in Sources :
       SplitWhileSpeaking(source)
         => /\ ReopenedInStep(source)
            /\ \E i \in DOMAIN files'[vadState'[source].audioPath].data :
                 files'[vadState'[source].audioPath].data[i] = vadState'[source].frameCount
    ]_vars

\* C27, as the code has it: the new utterance is opened in the same step,
\* the source active and the counter one higher, and its file holds the
\* header only: the frame that forced the split is in neither file.
C27_SplitReopensWithoutFrame ==
  [][\A source \in Sources :
       SplitWhileSpeaking(source)
         => /\ ReopenedInStep(source)
            /\ files'[vadState'[source].audioPath].data = <<>>
            /\ \A i \in DOMAIN finals'[Len(finals')].content :
                 finals'[Len(finals')].content[i] # vadState'[source].frameCount
    ]_vars

\* the second utterance of a source was opened by the frame that split the
\* first one for its duration
C27_Witness ==
  \E i \in 1..Len(finals) :
    /\ finals[i].reason = "max-duration"
    /\ finals[i].outcome = "dispatched"
    /\ vadState[finals[i].source].isActive
    /\ vadState[finals[i].source].utteranceCount = 2
    /\ vadState[finals[i].source].utteranceStart = finals[i].at

\* the finalization records that this step added
NewFinals == {finals'[i] : i \in (Len(finals) + 1)..Len(finals')}

\* the transcription calls that this step started
NewCalls == {c \in inflight' : \A d \in inflight : d.path # c.path}

\* C28: a step invokes transcribeAudioChunk (outcome "dispatched") for each
\* utterance it finalized with a duration of at least the minimum and for
\* no other: not for a discarded utterance, and not for a file that was
\* finalized before or that a call in flight holds.  No API call starts
\* but from such an invocation.  (An invocation on a file of the header only
\* returns before the API call, main.js:1013-1017.)
C28_FinalizationSoleTrigger ==
  [][/\ \A f \in NewFinals :
          /\ f.duration >= cfg.minUtterance => f.outcome = "dispatched"
          /\ f.duration < cfg.minUtterance
               => f.outcome = "discarded" /\ \A c \in inflight' : c.path # f.path
          /\ \A i \in 1..Len(finals) : finals[i].path # f.path
          /\ \A c \in inflight : c.path # f.path
     /\ \A c \in NewCalls :
          \E f \in NewFinals : f.path = c.path /\ f.outcome = "dispatched"
     /\ Cardinality(NewCalls) <= Cardinality(NewFinals)
     /\ Len(finals') - Len(finals) = Cardinality(NewFinals)
    ]_vars

\* one stopRecording finalized an utterance of each source, one long enough
\* and dispatched, the other too short and discarded
C28_Witness ==
  /\ Len(finals) = 2
  /\ finals[1].at = finals[2].at
  /\ finals[1].source # finals[2].source
  /\ \E i \in 1..2 : finals[i].outcome = "dispatched"
  /\ \E i \in 1..2 : finals[i].outcome = "discarded"
  /\ Cardinality(inflight) = 1

\* the frames from first to last, in arrival order
FrameRun(first, last) == [i \in 1..(last - first + 1) |-> first + i - 1]

\* the last frame that the source processed before the finalization f of this
\* step: the current frame when silence ended the utterance, the frame
\* before when the stream closed or the recording stopped
LastFrameOf(f) ==
  IF f.reason = "silence" THEN vadState'[f.source].frameCount
  ELSE vadState[f.source].frameCount

\* a finalization by silence, by the close of the stream or by stopRecording
EndsOnOwnFrame(f) == f.reason \in {"silence", "stream-closed", "recording-stopped"}

\* C32: the file of an utterance holds the frames from the one that opened
\* the utterance through the one it was finalized on, in arrival order, each
\* once.
C32_FileHoldsAllFrames ==
  [][\A f \in NewFinals :
       EndsOnOwnFrame(f) => f.content = FrameRun(opened[f.source], LastFrameOf(f))
    ]_vars

\* C32, as the code has it: the file holds the frames after the one that
\* opened the utterance through the one it was finalized on, in arrival
\* order, each once; the opening frame is not in it.
C32_FileLacksOpeningFrame ==
  [][\A f \in NewFinals :
       EndsOnOwnFrame(f) => f.content = FrameRun(opened[f.source] + 1, LastFrameOf(f))
    ]_vars

\* silence ended an utterance of three frames, dispatched with two
C32_Witness ==
  \E i \in 1..Len(finals) :
    /\ finals[i].reason = "silence"
    /\ finals[i].outcome = "dispatched"
    /\ Len(finals[i].content) = 2
    /\ vadState[finals[i].source].frameCount = 3

\* C34: the rolling buffer of a source never holds more than
\* VAD_BUFFER_LIMIT + 1 frames, active or not.
C34_BufferBounded ==
  \A source \in Sources : Len(vadState[source].audioBuffers) <= cfg.bufferLimit + 1

\* on the small limit an inactive source has processed three frames and
\* buffers the last one only: the buffer was emptied when it was over the
\* limit
C34_Witness ==
  \E source \in Sources :
    /\ cfg.bufferLimit = SmallBufferLimit
    /\ ~vadState[source].isActive
    /\ vadState[source].utteranceCount = 0
    /\ vadState[source].frameCount = SmallBufferLimit + 2
    /\ vadState[source].audioBuffers = <<SmallBufferLimit + 2>>

\* the other capture source
OtherSource(source) == IF source = "mic" THEN "speaker" ELSE "mic"

\* C22: a data event of one source, with whatever finalization it causes,
\* and the close event of one source's stream leave every field of the
\* other source's VAD state as it was.
C22_SourcesIndependent ==
  [][\A source \in Sources :
       FrameOf(source) \/ CloseOf(source)
         => vadState'[OtherSource(source)] = vadState[OtherSource(source)]
    ]_vars

\* the speaker's utterance was opened and then finalized by the close of its
\* stream while an utterance of the mic, opened in between, is in progress
C22_Witness ==
  /\ vadState["mic"].isActive
  /\ vadState["mic"].utteranceCount = 1
  /\ vadState["speaker"].utteranceCount = 1
  /\ ~vadState["speaker"].isActive
  /\ \E i \in 1..Len(finals) :
       /\ finals[i].source = "speaker"
       /\ finals[i].reason = "stream-closed"
       /\ finals[i].start < vadState["mic"].utteranceStart
       /\ finals[i].at > vadState["mic"].utteranceStart

----------------------------------------------------------------------------
(* Properties of a failed file operation, checked under SpecIo              *)

\* the Silence state of a source: inactive, timestamps cleared, no recorder
\* reference
InSilence(state) ==
  /\ ~state.isActive
  /\ state.isSilence
  /\ state.utteranceStart = NULL
  /\ state.silenceStart = NULL
  /\ state.audioPath = NoPath

\* this step is a data event of source that calls initializeWavFile
OpensFile(source) ==
  /\ frames' = frames + 1
  /\ script'.source = source
  /\ vadState'[source].utteranceCount = vadState[source].utteranceCount + 1

\* this step is a data event of source that calls appendToWavFile
AppendsToFile(source) ==
  /\ frames' = frames + 1
  /\ script'.source = source
  /\ vadState[source].isActive
  /\ vadState[source].audioPath # NoPath
  /\ ~BufferOverLimit(Len(vadState[source].audioBuffers))
  /\ ~OverMaxDuration(UtteranceDuration(vadState[source], clock'))

\* this step is a data event of source that calls finalizeWavFile and opens
\* no utterance after it
FinalizesFile(source) ==
  /\ frames' = frames + 1
  /\ script'.source = source
  /\ Len(finals') = Len(finals) + 1
  /\ finals'[Len(finals')].outcome # "discarded"
  /\ vadState'[source].utteranceCount = vadState[source].utteranceCount

\* C20: a data event in which opening, appending to or finalizing the
\* utterance file fails leaves the source in Silence: inactive, timestamps
\* cleared, no recorder reference.
C20_IoFailureResetsToSilence ==
  [][\A source \in Sources :
       \/ (OpensFile(source) \/ AppendsToFile(source)) /\ ~script'.okWrite
       \/ FinalizesFile(source) /\ ~script'.okFinal
       => InSilence(vadState'[source])
    ]_vars

\* C21: an utterance whose file could not be finalized (the header sizes
\* were not patched) is never dispatched to transcription.
C21_UnpatchedNeverDispatched ==
  \A i \in 1..Len(finals) : finals[i].outcome = "dispatched" => finals[i].patched

----------------------------------------------------------------------------
(* Properties of a failed transcription call, checked under SpecFailure     *)

\* C19: the step in which a transcription call fails or times out creates
\* and modifies no transcript entry and changes no field of the VAD state of
\* either source; it takes nothing from the recording session or from the
\* other calls in flight, so frames and results that come later meet the
\* state they would have met without it.
C19_FailureLeavesStateAlone ==
  [][failures' > failures =>
       /\ transcriptBuffer' = transcriptBuffer
       /\ recons' = recons
       /\ vadState' = vadState
       /\ isRecording' = isRecording
       /\ recorders' = recorders
       /\ streams' = streams
       /\ uploads' = uploads
       /\ inflight' \subseteq inflight
       /\ Cardinality(inflight') = Cardinality(inflight) - 1
       /\ \A p \in DOMAIN files :
            (\E c \in inflight' : c.path = p) => Exists(files', p) /\ files'[p] = files[p]
       /\ \A s \in Sources :
            vadState[s].isActive /\ Exists(files, vadState[s].audioPath)
              => /\ Exists(files', vadState[s].audioPath)
                 /\ files'[vadState[s].audioPath] = files[vadState[s].audioPath]
    ]_vars

\* one call has failed; the other answered and its result is in the
\* transcript; an utterance opened since is being recorded
C19_Witness ==
  /\ failures = 1
  /\ inflight = {}
  /\ Len(transcriptBuffer) = 1
  /\ \E s \in Sources :
       /\ vadState[s].isActive
       /\ vadState[s].utteranceCount = 2
       /\ Exists(files, vadState[s].audioPath)
       /\ files[vadState[s].audioPath].data # <<>>

----------------------------------------------------------------------------
(* The scenario of ten frames, checked under SpecScenario                   *)

\* C6: with the loudness sequence 20, 20, 90, 95, 92, 40, 20, 20, 20, 20, one
\* frame every 100 ms, nothing is open before frame 3; the utterance that
\* frame 3 opens stays open through frame 8; frame 9 finalizes it for
\* silence and it is dispatched; frame 10 opens nothing, so there is exactly
\* one utterance.
C6_ScenarioOneUtterance ==
  script.loudness = ScenarioLoudness =>
    LET state == vadState["mic"]
        done == script.next - 1
    IN /\ done <= 2 =>
            /\ ~state.isActive /\ state.utteranceCount = 0 /\ finals = <<>>
       /\ done \in 3..8 =>
            /\ state.isActive /\ state.utteranceCount = 1 /\ finals = <<>>
            /\ state.utteranceStart = FrameTime(3)
       /\ done >= 9 =>
            /\ ~state.isActive /\ state.utteranceCount = 1
            /\ Len(finals) = 1
            /\ finals[1].reason = "silence"
            /\ finals[1].start = FrameTime(3)
            /\ finals[1].at = FrameTime(9)
            /\ finals[1].outcome = "dispatched"
            /\ \E c \in inflight : c.path = finals[1].path
       /\ ~vadState["speaker"].isActive

\* the ten frames of the scenario have been processed
C6_Witness ==
  /\ script.loudness = ScenarioLoudness
  /\ script.next = Len(ScenarioLoudness) + 1
  /\ Len(finals) = 1

\* C7 as stated: the duration computed for the scenario's utterance is 700 ms.
C7_ScenarioDuration700 ==
  (script.loudness = ScenarioLoudness /\ finals # <<>>) => finals[1].duration = 700

\* C7: the duration computed for the scenario's utterance at its finalization
\* is 600 ms, the time from frame 3 to frame 9, and reaches the minimum.
C7_ScenarioDuration600 ==
  (script.loudness = ScenarioLoudness /\ finals # <<>>) =>
    /\ finals[1].duration = 600
    /\ finals[1].duration = FrameTime(9) - FrameTime(3)
    /\ finals[1].duration >= cfg.minUtterance

\* frame 9 of the scenario has just finalized the utterance
C7_Witness ==
  /\ script.loudness = ScenarioLoudness
  /\ script.next = 10
  /\ finals # <<>>
  /\ finals[1].reason = "silence"

----------------------------------------------------------------------------
(* Properties of the reconciler, checked under SpecRecon.  The log recons   *)
(* holds one record per non-empty transcription result, in the order the    *)
(* results were reconciled.                                                 *)

\* C8 as stated: a result whose text is that of the result before it from the
\* same source is ignored and changes nothing.
C8_RepeatedResultIgnored ==
  \A j \in 1..Len(recons) :
    \A i \in 1..(j - 1) :
      (/\ recons[i].source = recons[j].source
       /\ recons[i].text = recons[j].text
       /\ \A k \in (i + 1)..(j - 1) : recons[k].source # recons[j].source)
      => recons[j].decision = "ignore" /\ ~recons[j].changed

\* C8: a result whose text is, up to case and surrounding blanks, the current
\* text of the latest entry of its source is ignored, whatever the time since
\* that entry was updated: no entry is created and none is changed.
C8_SameAsLatestEntryIgnored ==
  [][Len(recons') > Len(recons) =>
       LET r == recons'[Len(recons')]
           own == {k \in 1..Len(transcriptBuffer) : transcriptBuffer[k].source = r.source}
       IN \A k \in own :
            (/\ \A m \in own : m <= k
             /\ Trim(ToLowerCase(transcriptBuffer[k].text)) = Trim(ToLowerCase(r.text)))
            => /\ r.decision = "ignore"
               /\ transcriptBuffer' = transcriptBuffer
    ]_vars

\* a repeated result was ignored after the continuation window had passed
C8_Witness ==
  \E j \in 2..Len(recons) :
    /\ recons[j].decision = "ignore"
    /\ ~recons[j].changed
    /\ recons[j - 1].source = recons[j].source
    /\ recons[j - 1].text = recons[j].text
    /\ recons[j].at - recons[j - 1].at > cfg.window

\* C9: reconciling a result leaves the entries of the other source as they
\* were, but for the oldest entry when the cap evicts it; "foo" from one
\* source and, 50 ms later, "bar" from the other make two entries, in the
\* order of their creation.
C9_SourcesNeverMerge ==
  /\ [][Len(recons') > Len(recons) =>
          LET r == recons'[Len(recons')]
              IsOther(e) == e.source # r.source
              before == SelectSeq(transcriptBuffer, IsOther)
              after == SelectSeq(transcriptBuffer', IsOther)
          IN \/ after = before
             \/ /\ r.decision = "create"
                /\ Len(transcriptBuffer) = cfg.maxEntries
                /\ IsOther(transcriptBuffer[1])
                /\ after = Tail(before)
       ]_vars
  /\ [](( /\ Len(recons) = 2
          /\ recons[1].source = "You" /\ recons[1].text = TextFoo
          /\ recons[2].source = "Other" /\ recons[2].text = TextBar
          /\ recons[2].at = recons[1].at + 50 )
        => /\ Len(transcriptBuffer) = 2
           /\ transcriptBuffer[1].source = "You"
           /\ transcriptBuffer[1].text = TextFoo
           /\ transcriptBuffer[1].timestamp = recons[1].at
           /\ transcriptBuffer[1].lastUpdated = recons[1].at
           /\ transcriptBuffer[2].source = "Other"
           /\ transcriptBuffer[2].text = TextBar
           /\ transcriptBuffer[2].timestamp = recons[2].at)

\* "foo" from the microphone and "bar" from the speaker 50 ms later
C9_Witness ==
  /\ Len(recons) = 2
  /\ recons[1].source = "You" /\ recons[1].text = TextFoo
  /\ recons[2].source = "Other" /\ recons[2].text = TextBar
  /\ recons[2].at = recons[1].at + 50
  /\ Len(transcriptBuffer) = 2

\* C10: the transcript buffer is sorted by creation time, ascending, after
\* every reconciliation.
C10_BufferSortedByCreation ==
  \A i \in 1..(Len(transcriptBuffer) - 1) :
    transcriptBuffer[i].timestamp <= transcriptBuffer[i + 1].timestamp

\* the cap has evicted the oldest entry, and the buffer holds entries
\* created at different times
C10_Witness ==
  /\ Len(transcriptBuffer) >= 2
  /\ transcriptBuffer[1].timestamp < transcriptBuffer[2].timestamp
  /\ Cardinality({i \in 1..Len(recons) : recons[i].decision = "create"})
       > Len(transcriptBuffer)

\* C11: the transcript never holds more than MAX_TRANSCRIPT_ENTRIES entries,
\* whatever results arrive from the two sources.
C11_BufferWithinCap ==
  Len(transcriptBuffer) <= cfg.maxEntries

\* more entries were created than the cap allows and the buffer is full
C11_Witness ==
  /\ Len(transcriptBuffer) = cfg.maxEntries
  /\ Cardinality({i \in 1..Len(recons) : recons[i].decision = "create"}) > cfg.maxEntries
  /\ \E i, j \in 1..Len(recons) : recons[i].source # recons[j].source

\* C13: every result is decided from the transcript it meets: create when
\* the transcript has no entry of its source; otherwise, with the entry of
\* its source that is last in the buffer, ignore when the similarity of the
\* entry's text and the new text is above the duplicate threshold, else
\* append when the entry was updated no longer ago than the continuation
\* window, else create.
C13_DecisionTable ==
  [][Len(recons') > Len(recons) =>
       LET r == recons'[Len(recons')]
           own == {k \in 1..Len(transcriptBuffer) : transcriptBuffer[k].source = r.source}
           last == CHOOSE k \in own : \A m \in own : m <= k
           latest == transcriptBuffer[last]
           sim == calculateTextSimilarity(latest.text, r.text)
       IN IF own = {} THEN r.decision = "create"
          ELSE IF sim[1] * cfg.similarity[2] > cfg.similarity[1] * sim[2]
               THEN r.decision = "ignore"
          ELSE IF r.at - latest.lastUpdated <= cfg.window THEN r.decision = "append"
          ELSE r.decision = "create"
    ]_vars

\* one source had a result create an entry, a later one appended to it and,
\* after the continuation window, a third create another entry
C13_Witness ==
  \E i, j, k \in 1..Len(recons) :
    /\ i < j /\ j < k
    /\ recons[i].source = recons[j].source /\ recons[j].source = recons[k].source
    /\ recons[i].decision = "create"
    /\ recons[j].decision = "append" /\ recons[j].changed
    /\ recons[k].decision = "create"
    /\ recons[k].at - recons[j].at > cfg.window

\* C17: a step reconciles at most one result, and the transcript changes
\* only in such a step, by the mutation that the result's decision calls for,
\* applied to the transcript the decision was taken on: ignore changes
\* nothing, append changes the text and lastUpdated of the latest entry of
\* the source and nothing else, create adds one entry and evicts at most the
\* oldest one.
C17_ReconciliationAtomic ==
  [][/\ Len(recons') <= Len(recons) + 1
     /\ transcriptBuffer' # transcriptBuffer => Len(recons') = Len(recons) + 1
     /\ Len(recons') = Len(recons) + 1 =>
          LET r == recons'[Len(recons')]
              own == {k \in 1..Len(transcriptBuffer) : transcriptBuffer[k].source = r.source}
              last == CHOOSE k \in own : \A m \in own : m <= k
              created == [id |-> r.at, timestamp |-> r.at, lastUpdated |-> r.at,
                          source |-> r.source, text |-> r.text]
          IN /\ SubSeq(recons', 1, Len(recons)) = recons
             /\ r.decision = "ignore" => transcriptBuffer' = transcriptBuffer
             /\ r.decision = "append" =>
                  /\ own # {}
                  /\ Len(transcriptBuffer') = Len(transcriptBuffer)
                  /\ \A k \in 1..Len(transcriptBuffer) :
                       k # last => transcriptBuffer'[k] = transcriptBuffer[k]
                  /\ \/ transcriptBuffer'[last] = transcriptBuffer[last]
                     \/ transcriptBuffer'[last] =
                          [transcriptBuffer[last] EXCEPT
                             !.text = transcriptBuffer[last].text \o <<" ">> \o r.text,
                             !.lastUpdated = r.at]
             /\ r.decision = "create" =>
                  \/ transcriptBuffer' = Append(transcriptBuffer, created)
                  \/ /\ Len(transcriptBuffer) = cfg.maxEntries
                     /\ transcriptBuffer' = Append(Tail(transcriptBuffer), created)
    ]_vars

\* a result was appended to the later of two entries of its source
C17_Witness ==
  \E i, j \in 1..Len(transcriptBuffer) :
    /\ i < j
    /\ transcriptBuffer[i].source = transcriptBuffer[j].source
    /\ transcriptBuffer[i].lastUpdated = transcriptBuffer[i].timestamp
    /\ transcriptBuffer[j].lastUpdated > transcriptBuffer[j].timestamp
    /\ recons[Len(recons)].decision = "append"
    /\ recons[Len(recons)].changed

\* the ids of the entries of a transcript
Ids(buf) == {buf[i].id : i \in 1..Len(buf)}

\* this step reconciled a result with the given decision
Reconciled(decision) ==
  /\ Len(recons') = Len(recons) + 1
  /\ recons'[Len(recons')].decision = decision

\* C30: a create on a full transcript removes exactly one entry, one with
\* the smallest creation time, and keeps the entry it created; a create on
\* a transcript below the cap, an append and an ignore remove no entry.
C30_EvictionIsFifo ==
  [][/\ Reconciled("create") /\ Len(transcriptBuffer) + 1 > cfg.maxEntries
          => /\ Len(transcriptBuffer') = Len(transcriptBuffer)
             /\ Cardinality(Ids(transcriptBuffer) \ Ids(transcriptBuffer')) = 1
             /\ \A i \in 1..Len(transcriptBuffer) :
                  transcriptBuffer[i].id \notin Ids(transcriptBuffer')
                    => \A j \in 1..Len(transcriptBuffer) :
                         transcriptBuffer[i].timestamp <= transcriptBuffer[j].timestamp
             /\ \E i \in 1..Len(transcriptBuffer') :
                  /\ transcriptBuffer'[i].id = clock'
                  /\ transcriptBuffer'[i].timestamp = clock'
                  /\ transcriptBuffer'[i].text = recons'[Len(recons')].text
     /\ Reconciled("create") /\ Len(transcriptBuffer) + 1 <= cfg.maxEntries
          => /\ Len(transcriptBuffer') = Len(transcriptBuffer) + 1
             /\ Ids(transcriptBuffer) \subseteq Ids(transcriptBuffer')
     /\ Reconciled("append") \/ Reconciled("ignore")
          => /\ Len(transcriptBuffer') = Len(transcriptBuffer)
             /\ Ids(transcriptBuffer') = Ids(transcriptBuffer)
    ]_vars

\* three entries were created on a cap of two: the first one is gone and
\* the two created after it remain, the latest last
C30_Witness ==
  /\ cfg.maxEntries = SmallCap
  /\ Len(recons) = 3
  /\ \A i \in 1..3 : recons[i].decision = "create"
  /\ Len(transcriptBuffer) = 2
  /\ transcriptBuffer[1].timestamp = recons[2].at
  /\ transcriptBuffer[2].timestamp = recons[3].at
  /\ recons[1].at < recons[2].at

\* C31: an append leaves the transcript as it was when the latest entry of
\* the source holds the new text already; otherwise that entry's text
\* becomes the old text, one space, the new text and its lastUpdated the
\* current time, and nothing else in the transcript changes.
C31_AppendChangesLatestOnly ==
  [][Reconciled("append")
       => LET r == recons'[Len(recons')]
              k == findLatestTranscriptFromSource(transcriptBuffer, r.source)
          IN /\ k # 0
             /\ IF Includes(transcriptBuffer[k].text, r.text)
                THEN transcriptBuffer' = transcriptBuffer
                ELSE transcriptBuffer' =
                       [transcriptBuffer EXCEPT
                          ![k].text = transcriptBuffer[k].text \o <<" ">> \o r.text,
                          ![k].lastUpdated = clock']
    ]_vars

\* the second result was joined to the entry the first one created, and the
\* third, a text the entry holds already, changed nothing
C31_Witness ==
  /\ Len(recons) = 3
  /\ Len(transcriptBuffer) = 1
  /\ recons[2].decision = "append" /\ recons[2].changed
  /\ recons[3].decision = "append" /\ ~recons[3].changed
  /\ transcriptBuffer[1].lastUpdated = recons[2].at
  /\ transcriptBuffer[1].timestamp = recons[1].at

----------------------------------------------------------------------------
(* The scenario of three results, checked under SpecReconScenario           *)

\* C12: on an empty transcript "hello there" from the microphone at 0 ms
\* creates an entry, "hello there" at 100 ms is ignored, and "and how are
\* you" at 2000 ms is appended to that entry, whose text becomes
\* "hello there and how are you"; the transcript ends with one entry.
C12_ScenarioThreeResults ==
  script.results = ScenarioResults =>
    /\ Len(recons) = script.next - 1
    /\ Len(recons) >= 1 =>
         /\ recons[1].decision = "create"
         /\ Len(transcriptBuffer) = 1
         /\ transcriptBuffer[1].source = "You"
         /\ transcriptBuffer[1].timestamp = Epoch
    /\ Len(recons) \in 1..2 =>
         /\ transcriptBuffer[1].text = TextHelloThere
         /\ transcriptBuffer[1].lastUpdated = Epoch
    /\ Len(recons) >= 2 =>
         /\ recons[2].decision = "ignore"
         /\ ~recons[2].changed
    /\ Len(recons) = 3 =>
         /\ recons[3].decision = "append"
         /\ transcriptBuffer[1].text = TextHelloThere \o <<" ">> \o TextAndHowAreYou
         /\ transcriptBuffer[1].lastUpdated = Epoch + 2000

\* the three results of the scenario have been reconciled
C12_Witness ==
  /\ script.results = ScenarioResults
  /\ script.next = 4
  /\ Len(recons) = 3
  /\ Len(transcriptBuffer) = 1

----------------------------------------------------------------------------
(* Properties of calculateTextSimilarity, checked under SpecSimilarity      *)

\* C14 as stated: for two non-empty texts the similarity is 1 when they are
\* equal after trim and lowercase and otherwise the Jaccard similarity of
\* their word sets.
C14_ExactJaccard ==
  (script.done /\ script.text1 # <<>> /\ script.text2 # <<>>) =>
    LET a == Trim(ToLowerCase(script.text1))
        b == Trim(ToLowerCase(script.text2))
        inter == Cardinality(WordSet(a) \cap WordSet(b))
        union == Cardinality(WordSet(a) \cup WordSet(b))
        r == script.similarity
    IN IF a = b THEN r[1] = r[2]
       ELSE r[1] * union = inter * r[2]

\* C14: for two non-empty texts the similarity is 1 when they are equal
\* after trim and lowercase; otherwise it is 0.3 when the sizes of the two
\* word sets differ by more than 3, and the Jaccard similarity of the word
\* sets when they do not.  The later copy of the function has no such
\* check and returns 0.9 when one normalized text contains the other.
C14_JaccardWithShortcuts ==
  (script.done /\ script.text1 # <<>> /\ script.text2 # <<>>) =>
    LET a == Trim(ToLowerCase(script.text1))
        b == Trim(ToLowerCase(script.text2))
        sizeA == Cardinality(WordSet(a))
        sizeB == Cardinality(WordSet(b))
        inter == Cardinality(WordSet(a) \cap WordSet(b))
        union == Cardinality(WordSet(a) \cup WordSet(b))
        r == script.similarity
        c == script.withContainment
    IN /\ r[2] > 0 /\ c[2] > 0
       /\ IF a = b THEN r[1] = r[2]
          ELSE IF sizeA - sizeB > 3 \/ sizeB - sizeA > 3 THEN r[1] * 10 = 3 * r[2]
          ELSE r[1] * union = inter * r[2]
       /\ IF a = b THEN c[1] = c[2]
          ELSE IF Includes(a, b) \/ Includes(b, a) THEN c[1] * 10 = 9 * c[2]
          ELSE c[1] * union = inter * c[2]

\* two texts whose word sets differ in size by more than 3 and have a
\* Jaccard similarity above one half were compared
C14_Witness ==
  /\ script.done
  /\ LET a == WordSet(Trim(ToLowerCase(script.text1)))
         b == WordSet(Trim(ToLowerCase(script.text2)))
     IN /\ Cardinality(b) - Cardinality(a) > 3
        /\ 2 * Cardinality(a \cap b) > Cardinality(a \cup b)
  /\ script.similarity = <<3, 10>>

----------------------------------------------------------------------------
(* Properties of the frame sampler, checked under SpecSampler.  The         *)
(* amplitude is the square root of amplitude[1] / amplitude[2].             *)

\* C15: the loudness calculateAmplitude computes from the samples of a frame
\* is a number that is at least 0, and it is 0 when every sample is zero and
\* when there is no sample.
C15_AmplitudeNonNegative ==
  (script.done /\ script.error = "none") =>
    /\ script.amplitude[2] > 0
    /\ script.amplitude[1] >= 0
    /\ (\A i \in 1..Len(script.samples) : script.samples[i] = 0)
         => script.amplitude[1] = 0

\* the amplitude of a frame of two samples, the first negative, was computed
C15_Witness ==
  /\ script.done /\ script.error = "none"
  /\ Len(script.samples) = 2
  /\ script.samples[1] < 0
  /\ script.amplitude[1] > 0

\* C16 as stated: for any buffer, of any length and at any offset into its
\* backing store, the sampler returns a loudness and raises no error, and
\* a trailing odd byte is ignored.
C16_SamplerTotal ==
  script.done =>
    /\ script.error = "none"
    /\ Len(script.samples) = Len(script.buffer.bytes) \div 2
----------------------------------------------------------------------------
(* Properties of the whole pipeline, checked under Spec.  A record of       *)
(* recons carries emitted, whether transcript:update reached the window,    *)
(* and error, what mainWindow.webContents.send threw (main.js:1142): with   *)
(* the window closed mainWindow is null, and the catch block's own send     *)
(* (main.js:1146) throws again, so the call's promise rejects.              *)

\* C33: an inactive source has no utterance start, no silence start and no
\* recorder path and is flagged silent; an active source has an utterance
\* start and a recorder path, and is flagged silent exactly when it has a
\* silence start.
C33_VadStateConsistent ==
  \A source \in Sources :
    LET state == vadState[source] IN
    IF state.isActive
    THEN /\ state.utteranceStart # NULL
         /\ state.audioPath # NoPath
         /\ state.isSilence <=> state.silenceStart # NULL
    ELSE /\ state.utteranceStart = NULL
         /\ state.silenceStart = NULL
         /\ state.audioPath = NoPath
         /\ state.isSilence

\* one source is in an utterance that has gone silent while the other, which
\* has processed a frame, is inactive
C33_Witness ==
  /\ vadState["mic"].isActive
  /\ vadState["mic"].isSilence
  /\ vadState["mic"].silenceStart > vadState["mic"].utteranceStart
  /\ ~vadState["speaker"].isActive
  /\ sessions = 1

\* C35: the audio that a transcription call has read for its upload is the
\* utterance file the call was started for.
C35_UploadIsOwnFile ==
  \A c \in inflight : c.sent # NoPath => c.sent = c.path

\* a call of the session that ended before the run settles in this step
SettlesEarlierCall ==
  \E c \in FirstCalls : /\ \E d \in inflight : d.path = c.path
                        /\ \A d \in inflight' : d.path # c.path

\* C36: once startRecording has cleared the transcript for a new session, the
\* settling of a call of an earlier session leaves the transcript as it is.
C36_EarlierSessionKeptOut ==
  [][sessions > 1 /\ SettlesEarlierCall => transcriptBuffer' = transcriptBuffer]_vars

\* C37: a startRecording that resumes from its device detection while the
\* application is already recording creates no further capture stream.
C37_OneStreamPerSource ==
  [][isRecording => \A s \in Sources : streams'[s] <= streams[s]]_vars

C39_EveryFileDestroyed ==
  (DOMAIN files # {}) ~> (DOMAIN files = {})

\* C39: the file of a discarded utterance is gone when its finalization
\* returns, and every call in flight eventually settles, after which the
\* file of its utterance is gone.
\* (A run starts finitely many calls, so they all settle exactly if
\* whenever a call is in flight there is a later moment without any.)
C39_DispatchedFileDestroyed ==
  /\ [][\A f \in NewFinals : f.outcome = "discarded" => ~Exists(files', f.path)]_vars
  /\ [][\A c \in inflight : (\A d \in inflight' : d.path # c.path)
                               => ~Exists(files', c.path)]_vars
  /\ (inflight # {}) ~> (inflight = {})

\* a call of the first session lost its race and the files of all of them
\* are gone
C39_Witness ==
  /\ failures > 0
  /\ inflight = {}
  /\ \A c \in FirstCalls : ~Exists(files, c.path)

\* the texts of the entries of a source, joined in the order of the transcript
RECURSIVE SourceText(_, _)
SourceText(buf, t) ==
  IF buf = <<>> THEN <<>>
  ELSE (IF Head(buf).source = t THEN Head(buf).text \o <<" ">> ELSE <<>>)
         \o SourceText(Tail(buf), t)

\* text has late somewhere and early somewhere after it
ComesAfter(text, early, late) ==
  \E i \in 1..Len(text) :
    /\ Includes(SubSeq(text, 1, i), late)
    /\ Includes(SubSeq(text, i + 1, Len(text)), early)

\* C40: in the transcript, what a source said in an utterance never comes
\* after what it said in a later utterance.
C40_SpeechOrderKept ==
  \A t \in TranscriptSources, j \in 1..MaxPending, k \in 1..MaxPending :
    j < k => ~ComesAfter(SourceText(transcriptBuffer, t), Spoken(j), Spoken(k))

----------------------------------------------------------------------------
(* Properties of the duplicate threshold, checked under SpecThreshold       *)

\* C24: a result that is ignored under a threshold is also ignored under
\* any higher threshold.
C24_HigherThresholdIgnoresMore ==
  \A d \in script.decisions, e \in script.decisions :
    Below(d.threshold, e.threshold) /\ d.decision = "ignore" => e.decision = "ignore"

\* C24, as the code has it: a result that is ignored under a threshold is
\* also ignored under any lower threshold, so that it is lowering the
\* threshold that filters more.
C24_LowerThresholdIgnoresMore ==
  \A d \in script.decisions, e \in script.decisions :
    Below(e.threshold, d.threshold) /\ d.decision = "ignore" => e.decision = "ignore"

\* the decision was taken under the three thresholds: ignored under the
\* lowest, not ignored under the highest
C24_Witness ==
  /\ Cardinality(script.decisions) = Cardinality(Thresholds)
  /\ \E d \in script.decisions, e \in script.decisions :
       /\ Below(d.threshold, e.threshold)
       /\ d.decision = "ignore"
       /\ e.decision # "ignore"
----------------------------------------------------------------------------
(* Properties of the transcript:update messages, checked under              *)
(* SpecTeardown.  A record of recons carries snapshot, the payload of the   *)
(* message its reconciliation sends.                                        *)

\* the snapshot that the reconciliation of this step emitted is the
\* transcript after the step, sorted by creation time and within the cap
EmitsTranscript ==
  LET r == recons'[Len(recons')] IN
  /\ r.emitted
  /\ r.snapshot = transcriptBuffer'
  /\ \A i \in 1..(Len(r.snapshot) - 1) :
       r.snapshot[i].timestamp <= r.snapshot[i + 1].timestamp
  /\ Len(r.snapshot) <= cfg.maxEntries

\* C25: every reconciliation that mutates the transcript emits, in the same
\* step and so before any other reconciliation, a transcript:update with the
\* transcript after the mutation, sorted by creation time and within the
\* entry cap.
C25_EveryMutationEmitted ==
  [][Len(recons') = Len(recons) + 1 /\ transcriptBuffer' # transcriptBuffer
       => EmitsTranscript
    ]_vars

\* C25, while the main window is open: every reconciliation that mutates the
\* transcript emits the transcript after the mutation in the same step.
C25_MutationEmittedToOpenWindow ==
  [][mainWindow /\ Len(recons') = Len(recons) + 1 /\ transcriptBuffer' # transcriptBuffer
       => EmitsTranscript
    ]_vars

\* three entries were created on a cap of two and each creation was emitted:
\* the last snapshot is the transcript after the eviction
C25_Witness ==
  /\ Len(recons) = 3
  /\ \A i \in 1..3 : recons[i].decision = "create" /\ recons[i].emitted
  /\ Len(transcriptBuffer) = SmallCap
  /\ recons[3].snapshot = transcriptBuffer
  /\ recons[2].snapshot # recons[3].snapshot
----------------------------------------------------------------------------
(* Properties of the utterance file, checked under SpecWav.  Sizes are in   *)
(* units of 4 bytes: 36 bytes are 9 units.                                  *)

\* what initializeWavFile wrote besides the sizes is still in the header
FormatUnchanged ==
  /\ script.file.channels = script.channels
  /\ script.file.sampleRate = VAD_SAMPLE_RATE
  /\ script.file.bitsPerSample = BITS_PER_SAMPLE

\* C29: after initializeWavFile, any number of appendToWavFile calls and
\* finalizeWavFile, the data-size field is the number of appended bytes and
\* the RIFF size field that number plus 36, both modulo 2^32, and the
\* channel count, sample rate and bit depth are as written at open.
C29_HeaderSizesModulo ==
  script.finalized
    => /\ script.file.dataSize = script.file.data % UInt32Range
       /\ script.file.riffSize = (script.file.data + 9) % UInt32Range
       /\ FormatUnchanged

\* C29, as the code has it: the fields are the number of appended bytes and
\* that number plus 36 when the latter is below 2^32; otherwise finalizeWavFile
\* fails and both fields keep the placeholder zero.  The format fields are as
\* written at open.
C29_HeaderSizesOrPlaceholders ==
  script.finalized
    => /\ IF script.file.data + 9 < UInt32Range
          THEN /\ script.file.dataSize = script.file.data
               /\ script.file.riffSize = script.file.data + 9
          ELSE /\ script.file.dataSize = 0
               /\ script.file.riffSize = 0
       /\ FormatUnchanged

\* a file of five appends, more than 2 GiB and less than 4 GiB, finalized
C29_Witness ==
  /\ script.finalized
  /\ script.appends = 5
  /\ script.file.data > UInt32Range \div 2
  /\ script.file.data + 9 < UInt32Range
  /\ script.file.riffSize = script.file.data + 9

====
